---- MODULE Spec2Model ----
(***************************************************************************)
(* A model of python-marshal: the marshal reader (reader.rs), the writer   *)
(* (writer.rs), the reference optimizer (optimizer.rs), the resolver       *)
(* (resolver.rs), the version table (magic.rs) and the .pyc framing        *)
(* (lib.rs).                                                               *)
(*                                                                         *)
(* Values.  An Object is a record [t, n, b, s]: t the variant name, n an   *)
(* integer payload (the sign of a Long, the index of a LoadRef/StoreRef,   *)
(* the Kind of a String, the layout of a Code), b a byte payload (Bytes,   *)
(* String, the 15-bit digits of a Long's magnitude, least significant      *)
(* first and without leading zeros, as a BigInt keeps them; the integer    *)
(* header fields of a Code) and s the children (the                        *)
(* elements of a Tuple/List/Set/FrozenSet, the key/value pairs of a Dict   *)
(* flattened as k1,v1,k2,v2.., the object fields of a Code).  An           *)
(* ObjectHashable is the same record with the variant name prefixed by H.  *)
(* Option<Object>::None is the record NullObj.                             *)
(***************************************************************************)
EXTENDS Integers, Sequences, FiniteSets, TLC

VARIABLES pc, data, version, marshal_version, object, references, result, dumped, aux,
          no_table, writer

vars == <<pc, data, version, marshal_version, object, references, result, dumped, aux,
          no_table, writer>>

(***************************************************************************)
(* Kind (lib.rs): the tag bytes.                                           *)
(***************************************************************************)
KindNull == 48
KindNone == 78
KindFalse == 70
KindTrue == 84
KindStopIteration == 83
KindEllipsis == 46
KindInt == 105
KindInt64 == 73
KindFloat == 102
KindBinaryFloat == 103
KindComplex == 120
KindBinaryComplex == 121
KindLong == 108
KindString == 115
KindInterned == 116
KindRef == 114
KindTuple == 40
KindList == 91
KindDict == 123
KindCode == 99
KindUnicode == 117
KindUnknown == 63
KindSet == 60
KindFrozenSet == 62
KindASCII == 97
KindASCIIInterned == 65
KindSmallTuple == 41
KindShortAscii == 122
KindShortAsciiInterned == 90
KindFlagRef == 128

\* Kind::from_u8 succeeds exactly on the discriminants of the enum.
Kinds ==
    {KindNull, KindNone, KindFalse, KindTrue, KindStopIteration, KindEllipsis,
     KindInt, KindInt64, KindFloat, KindBinaryFloat, KindComplex,
     KindBinaryComplex, KindLong, KindString, KindInterned, KindRef, KindTuple,
     KindList, KindDict, KindCode, KindUnicode, KindUnknown, KindSet,
     KindFrozenSet, KindASCII, KindASCIIInterned, KindSmallTuple,
     KindShortAscii, KindShortAsciiInterned, KindFlagRef}

(***************************************************************************)
(* Object and ObjectHashable (lib.rs).                                     *)
(***************************************************************************)
Obj(t, n, b, s) == [t |-> t, n |-> n, b |-> b, s |-> s]

NullObj == Obj("Null", 0, <<>>, <<>>)
PyNone == Obj("None", 0, <<>>, <<>>)
PyStopIteration == Obj("StopIteration", 0, <<>>, <<>>)
PyEllipsis == Obj("Ellipsis", 0, <<>>, <<>>)
PyBool(v) == Obj("Bool", IF v THEN 1 ELSE 0, <<>>, <<>>)
PyLong(sign, digits) == Obj("Long", sign, digits, <<>>)
PyFloat(bits) == Obj("Float", 0, bits, <<>>)
PyComplex(bits) == Obj("Complex", 0, bits, <<>>)
PyBytes(bytes) == Obj("Bytes", 0, bytes, <<>>)
PyString(bytes, kind) == Obj("String", kind, bytes, <<>>)
PyTuple(items) == Obj("Tuple", 0, <<>>, items)
PyList(items) == Obj("List", 0, <<>>, items)
PyDict(pairs) == Obj("Dict", 0, <<>>, pairs)
PySet(items) == Obj("Set", 0, <<>>, items)
PyFrozenSet(items) == Obj("FrozenSet", 0, <<>>, items)
PyCode(layout, ints, fields) == Obj("Code", layout, ints, fields)
LoadRef(i) == Obj("LoadRef", i, <<>>, <<>>)
StoreRef(i) == Obj("StoreRef", i, <<>>, <<>>)

\* The variant of ObjectHashable that corresponds to a variant of Object.
HName(t) ==
    CASE t = "None" -> "HNone"
      [] t = "StopIteration" -> "HStopIteration"
      [] t = "Ellipsis" -> "HEllipsis"
      [] t = "Bool" -> "HBool"
      [] t = "Long" -> "HLong"
      [] t = "Float" -> "HFloat"
      [] t = "Complex" -> "HComplex"
      [] t = "Bytes" -> "HBytes"
      [] t = "String" -> "HString"
      [] t = "Tuple" -> "HTuple"
      [] t = "FrozenSet" -> "HFrozenSet"
      [] t = "LoadRef" -> "HLoadRef"
      [] t = "StoreRef" -> "HStoreRef"
      [] OTHER -> "HInvalid"

OName(t) ==
    CASE t = "HNone" -> "None"
      [] t = "HStopIteration" -> "StopIteration"
      [] t = "HEllipsis" -> "Ellipsis"
      [] t = "HBool" -> "Bool"
      [] t = "HLong" -> "Long"
      [] t = "HFloat" -> "Float"
      [] t = "HComplex" -> "Complex"
      [] t = "HBytes" -> "Bytes"
      [] t = "HString" -> "String"
      [] t = "HTuple" -> "Tuple"
      [] t = "HFrozenSet" -> "FrozenSet"
      [] t = "HLoadRef" -> "LoadRef"
      [] t = "HStoreRef" -> "StoreRef"
      [] OTHER -> "Invalid"

HLoadRef(i) == Obj("HLoadRef", i, <<>>, <<>>)
HStoreRef(i) == Obj("HStoreRef", i, <<>>, <<>>)

(***************************************************************************)
(* Results.  Every fallible operation returns a record                     *)
(* [st, e, obj, pos, refs]: st is "ok", "err" (a returned Err(e)) or       *)
(* "panic" (the process aborts: panic!, todo!, unwrap on None/Err, an      *)
(* index out of bounds, a capacity overflow, a stack overflow).            *)
(***************************************************************************)
Ok(o, p, r) == [st |-> "ok", e |-> "", obj |-> o, pos |-> p, refs |-> r]
Err(e) == [st |-> "err", e |-> e, obj |-> NullObj, pos |-> 0, refs |-> <<>>]
Panic(e) == [st |-> "panic", e |-> e, obj |-> NullObj, pos |-> 0, refs |-> <<>>]

\* `?` on a result: an Err or an abort ends the operation with it, an Ok
\* goes on to Then.
Try(r, Then(_)) == IF r.st # "ok" THEN r ELSE Then(r)

\* `let v = ..;` followed by In.
Let(v, In(_)) == In(v)

\* Sequence helpers.
SeqMap(Op(_), s) == [i \in 1..Len(s) |-> Op(s[i])]
SeqRange(s) == {s[i] : i \in 1..Len(s)}

\* The elements of s, first occurrences only, in order (collect into IndexSet).
RECURSIVE IndexSetFrom(_, _)
IndexSetFrom(s, acc) ==
    IF s = <<>> THEN acc
    ELSE IndexSetFrom(Tail(s),
                      IF Head(s) \in SeqRange(acc) THEN acc ELSE Append(acc, Head(s)))

\* IndexMap::insert on the flattened pairs: an existing key keeps its place
\* and gets the new value.
IndexMapInsert(pairs, k, v) ==
    IF \E j \in 1..(Len(pairs) \div 2) : pairs[2 * j - 1] = k
    THEN [i \in 1..Len(pairs) |->
            IF i % 2 = 0 /\ pairs[i - 1] = k THEN v ELSE pairs[i]]
    ELSE pairs \o <<k, v>>

(***************************************************************************)
(* ObjectHashable conversions (lib.rs).  A HashableHashSet is kept as the  *)
(* sequence it was collected from.                                         *)
(***************************************************************************)
HashableAtoms ==
    {"None", "StopIteration", "Ellipsis", "Bool", "Long", "Float", "Complex",
     "Bytes", "String"}

\* impl TryFrom<Object> for ObjectHashable
RECURSIVE try_from(_)
try_from(o) ==
    IF o.t \in HashableAtoms THEN Ok(Obj(HName(o.t), o.n, o.b, <<>>), 0, <<>>)
    ELSE IF o.t = "Tuple" THEN
        LET rs == [i \in 1..Len(o.s) |-> try_from(o.s[i])] IN
        IF \E i \in 1..Len(o.s) : rs[i].st # "ok"
        THEN Panic("unwrap on Err in try_from")
        ELSE Ok(Obj("HTuple", 0, <<>>, [i \in 1..Len(o.s) |-> rs[i].obj]), 0, <<>>)
    ELSE IF o.t = "FrozenSet" THEN Ok(Obj("HFrozenSet", 0, <<>>, o.s), 0, <<>>)
    ELSE Err("InvalidObject")

\* ObjectHashable::from_ref; stack holds the slots being resolved (a slot met
\* again is an unbounded recursion).
RECURSIVE from_ref(_, _, _)
from_ref(o, refs, stack) ==
    IF o.t \in {"LoadRef", "StoreRef"} THEN
        IF o.n >= 0 /\ o.n < Len(refs) THEN
            IF o.n \in stack THEN Panic("stack overflow in from_ref")
            ELSE LET r == from_ref(refs[o.n + 1], refs, stack \cup {o.n}) IN
                 IF r.st # "ok" THEN r
                 ELSE Ok(Obj(HName(o.t), o.n, <<>>, <<>>), 0, <<>>)
        ELSE Err("InvalidReference")
    ELSE IF o.t = "Tuple" THEN
        LET rs == [i \in 1..Len(o.s) |-> from_ref(o.s[i], refs, stack)] IN
        IF \E i \in 1..Len(o.s) : rs[i].st # "ok"
        THEN Panic("unwrap on Err in from_ref")
        ELSE Ok(Obj("HTuple", 0, <<>>, [i \in 1..Len(o.s) |-> rs[i].obj]), 0, <<>>)
    ELSE try_from(o)

\* impl From<ObjectHashable> for Object
RECURSIVE from_hashable(_)
from_hashable(h) ==
    IF h.t = "HTuple" THEN PyTuple([i \in 1..Len(h.s) |-> from_hashable(h.s[i])])
    ELSE IF h.t = "HFrozenSet" THEN PyFrozenSet(h.s)
    ELSE Obj(OName(h.t), h.n, h.b, <<>>)

(***************************************************************************)
(* Little-endian integers.                                                 *)
(***************************************************************************)
Pow2(k) == 2 ^ k

\* value.to_le_bytes() of an i32 / u16 / u8 (the low nbytes bytes of the
\* two's complement of v; those of a negative v are the complements of the
\* bytes of -v - 1).
LE(v, nbytes) ==
    LET u == IF v < 0 THEN -(v + 1) ELSE v
        byte(i) == (u \div Pow2(8 * (i - 1))) % 256
    IN [i \in 1..nbytes |-> IF v < 0 THEN 255 - byte(i) ELSE byte(i)]

\* u8 / u16::from_le_bytes on d[pos+1 .. pos+nbytes]
RECURSIVE FromLE(_, _, _)
FromLE(d, pos, nbytes) ==
    IF nbytes = 0 THEN 0 ELSE d[pos + 1] + 256 * FromLE(d, pos + 1, nbytes - 1)

\* i32::from_le_bytes on d[pos+1 .. pos+4]
FromLE32(d, pos) ==
    IF d[pos + 4] >= 128
    THEN -(FromLE([i \in 1..4 |-> 255 - d[pos + i]], 0, 4)) - 1
    ELSE FromLE(d, pos, 4)

I32Max == (Pow2(30) - 1) + Pow2(30)
I32Min == -I32Max - 1

\* Bits, least significant first.
BytesToBits(bytes) ==
    [k \in 1..(8 * Len(bytes)) |-> (bytes[((k - 1) \div 8) + 1] \div Pow2((k - 1) % 8)) % 2]

RECURSIVE BitsInc(_)
BitsInc(bits) ==
    IF bits = <<>> THEN <<>>
    ELSE IF Head(bits) = 0 THEN <<1>> \o Tail(bits)
    ELSE <<0>> \o BitsInc(Tail(bits))

RECURSIVE BitsValue(_)
BitsValue(bits) == IF bits = <<>> THEN 0 ELSE Head(bits) + 2 * BitsValue(Tail(bits))

\* Without the zero digits at the most significant end.
RECURSIVE Normalize(_)
Normalize(digits) ==
    IF digits # <<>> /\ digits[Len(digits)] = 0
    THEN Normalize(SubSeq(digits, 1, Len(digits) - 1))
    ELSE digits

BitsToDigits(bits) ==
    LET n == (Len(bits) + 14) \div 15
        lo(j) == 15 * (j - 1) + 1
        hi(j) == IF 15 * j > Len(bits) THEN Len(bits) ELSE 15 * j
    IN Normalize([j \in 1..n |-> BitsValue(SubSeq(bits, lo(j), hi(j)))])

\* BigInt::from of the i32 / i64 whose little-endian bytes are given
LongFromSignedBytes(bytes) ==
    LET neg == bytes[Len(bytes)] >= 128
        mag == IF neg THEN BitsInc(BytesToBits([i \in 1..Len(bytes) |-> 255 - bytes[i]]))
               ELSE BytesToBits(bytes)
        digits == BitsToDigits(mag)
    IN PyLong(IF digits = <<>> THEN 0 ELSE IF neg THEN -1 ELSE 1, digits)

\* BigInt::from(v) of an i32 v
LongOf(v) == LongFromSignedBytes(LE(v, 4))

\* The carrier of a plain machine integer in a result.
IntVal(v) == Obj("Int", v, <<>>, <<>>)

RECURSIVE BitOr(_, _)
BitOr(a, b) ==
    IF a = 0 THEN b
    ELSE IF b = 0 THEN a
    ELSE (IF a % 2 = 1 \/ b % 2 = 1 THEN 1 ELSE 0) + 2 * BitOr(a \div 2, b \div 2)

SubSeqFrom(d, pos, n) == [i \in 1..n |-> d[pos + i]]


(***************************************************************************)
(* PyReader (reader.rs).  The cursor is (d, pos), pos the number of bytes  *)
(* consumed; refs is self.references; ver is self.version.                 *)
(***************************************************************************)
Remaining(d, pos) == Len(d) - pos

\* r_u8 / r_u16 (unsigned) and r_long (signed, 4 bytes): read_exact fails at
\* the end of the data.
r_int(d, pos, nbytes, signed) ==
    IF Remaining(d, pos) < nbytes THEN Err("InvalidData")
    ELSE Ok(IntVal(IF signed THEN FromLE32(d, pos) ELSE FromLE(d, pos, nbytes)),
            pos + nbytes, <<>>)

\* BigInt::from(r_long()?) and BigInt::from(r_long64()?)
r_long_object(d, pos, nbytes) ==
    IF Remaining(d, pos) < nbytes THEN Err("InvalidData")
    ELSE Ok(LongFromSignedBytes(SubSeqFrom(d, pos, nbytes)), pos + nbytes, <<>>)

\* r_bytes(length as usize): a negative i32 length becomes a usize above
\* isize::MAX and vec![0; length] aborts with a capacity overflow.
r_bytes(d, pos, length) ==
    IF length < 0 THEN Panic("capacity overflow in r_bytes")
    ELSE IF Remaining(d, pos) < length THEN Err("InvalidData")
    ELSE Ok(PyBytes(SubSeqFrom(d, pos, length)), pos + length, <<>>)

\* count consecutive r_long()s
RECURSIVE r_longs(_, _, _, _)
r_longs(d, pos, count, acc) ==
    IF count = 0 THEN Ok(PyBytes(acc), pos, <<>>)
    ELSE Try(r_int(d, pos, 4, TRUE), LAMBDA r :
             r_longs(d, r.pos, count - 1, Append(acc, r.obj.n)))

\* value |= digit << (i * 15) over the digits read: a digit of 1 << 15, which
\* the range check lets through, lands on the lowest bit of the next digit.
OrDigits(raw) ==
    LET at(j) == IF j >= 1 /\ j <= Len(raw) THEN raw[j] ELSE 0 IN
    Normalize([j \in 1..(Len(raw) + 1) |->
                  BitOr(at(j) % Pow2(15), IF at(j - 1) = Pow2(15) THEN 1 ELSE 0)])

\* The digits of a Kind::Long: for i in 0..size { r_u16; range check; or in }
RECURSIVE r_digits(_, _, _, _, _)
r_digits(d, pos, size, i, raw) ==
    IF i = size THEN Ok(PyBytes(OrDigits(raw)), pos, <<>>)
    ELSE Try(r_int(d, pos, 2, FALSE), LAMBDA r :
             IF r.obj.n > Pow2(15) THEN Err("DigitOutOfRange")
             ELSE r_digits(d, r.pos, size, i + 1, Append(raw, r.obj.n)))

\* resolve_object_ref!
resolve_object_ref(o, refs) ==
    IF o.t \in {"LoadRef", "StoreRef"} THEN
        IF o.n >= 0 /\ o.n < Len(refs) THEN Ok(refs[o.n + 1], 0, <<>>)
        ELSE Err("InvalidReference")
    ELSE Ok(o, 0, <<>>)

\* extract_object!(Some(resolve_object_ref!(..)?), Object::<want>(..))
extract_object(o, refs, want) ==
    Try(resolve_object_ref(o, refs), LAMBDA r :
        IF r.obj.t = want THEN r ELSE Err("InvalidObject"))

\* extract_strings_tuple!(extract_object!(.. Object::Tuple ..), references)
extract_strings_tuple(o, refs) ==
    Try(extract_object(o, refs, "Tuple"), LAMBDA r :
        LET es == [i \in 1..Len(r.obj.s) |-> resolve_object_ref(r.obj.s[i], refs)]
            bad == {i \in 1..Len(r.obj.s) : es[i].st # "ok" \/ es[i].obj.t # "String"}
            first == CHOOSE i \in bad : \A j \in bad : i <= j
        IN IF bad = {} THEN r
           ELSE IF es[first].st # "ok" THEN es[first] ELSE Err("UnexpectedObject"))

\* The first failure of a sequence of checks, or the last result.
RECURSIVE FirstFailure(_)
FirstFailure(rs) ==
    IF Len(rs) = 1 \/ Head(rs).st # "ok" THEN Head(rs) ELSE FirstFailure(Tail(rs))

\* Code310::new: the type checks of the fields
\* (code, consts, names, varnames, freevars, cellvars, filename, name, lnotab).
Code310_new(ints, f, refs) ==
    Try(FirstFailure(<<extract_object(f[1], refs, "Bytes"),
                       extract_object(f[2], refs, "Tuple"),
                       extract_strings_tuple(f[3], refs),
                       extract_strings_tuple(f[4], refs),
                       extract_strings_tuple(f[5], refs),
                       extract_strings_tuple(f[6], refs),
                       extract_object(f[7], refs, "String"),
                       extract_object(f[8], refs, "String"),
                       extract_object(f[9], refs, "Bytes")>>),
        LAMBDA chk : Ok(PyCode(310, ints, f), 0, <<>>))

\* Code311::new: the type checks of the fields (code, consts, names,
\* localsplusnames, localspluskinds, filename, name, qualname, linetable,
\* exceptiontable).
Code311_new(ints, f, refs) ==
    Try(FirstFailure(<<extract_object(f[1], refs, "Bytes"),
                       extract_object(f[2], refs, "Tuple"),
                       extract_strings_tuple(f[3], refs),
                       extract_strings_tuple(f[4], refs),
                       extract_object(f[5], refs, "Bytes"),
                       extract_object(f[6], refs, "String"),
                       extract_object(f[7], refs, "String"),
                       extract_object(f[8], refs, "String"),
                       extract_object(f[9], refs, "Bytes"),
                       extract_object(f[10], refs, "Bytes")>>),
        LAMBDA chk : Ok(PyCode(311, ints, f), 0, <<>>))

\* Kinds whose slot is reserved before the payload is read.
ReservedKinds ==
    {KindSmallTuple, KindTuple, KindList, KindDict, KindSet, KindFrozenSet, KindCode}

\* Objects that never get a slot, flag or no flag.
Unstorable == {"Null", "None", "StopIteration", "Ellipsis", "Bool", "LoadRef"}

StringKinds4 == {KindASCIIInterned, KindASCII, KindInterned, KindUnicode}
StringKinds1 == {KindShortAsciiInterned, KindShortAscii}

\* The error r_vec returns for a NULL element.
NullInError(kind) ==
    CASE kind = KindTuple -> "NullInTuple"
      [] kind = KindList -> "NullInList"
      [] kind = KindSet -> "NullInSet"
      [] OTHER -> "InvalidKind"

\* Every element through ObjectHashable::from_ref, any Err mapped to
\* UnexpectedObject, collected into an IndexSet.
hashable_elements(items, refs) ==
    Let([i \in 1..Len(items) |-> from_ref(items[i], refs, {})], LAMBDA rs :
        LET bad == {i \in 1..Len(items) : rs[i].st # "ok"}
            first == CHOOSE i \in bad : \A j \in bad : i <= j
        IN IF bad = {} THEN Ok(PyList(IndexSetFrom([i \in 1..Len(items) |-> rs[i].obj], <<>>)), 0, <<>>)
           ELSE IF rs[first].st = "panic" THEN rs[first] ELSE Err("UnexpectedObject"))

RECURSIVE r_object(_, _, _, _), r_vec(_, _, _, _, _, _, _), r_hashmap(_, _, _, _, _),
          r_fields(_, _, _, _, _, _)

\* r_vec: length elements, none of them NULL.
r_vec(d, ver, pos, refs, length, kind, acc) ==
    IF length < 0 THEN Panic("capacity overflow in r_vec")
    ELSE IF length = 0 THEN Ok(PyList(acc), pos, refs)
    ELSE Try(r_object(d, ver, pos, refs), LAMBDA r :
             IF r.obj.t = "Null" THEN Err(NullInError(kind))
             ELSE r_vec(d, ver, r.pos, r.refs, length - 1, kind, Append(acc, r.obj)))

\* r_hashmap: key/value pairs up to the first NULL key or NULL value.
r_hashmap(d, ver, pos, refs, map) ==
    Try(r_object(d, ver, pos, refs), LAMBDA k :
        IF k.obj.t = "Null" THEN Ok(PyDict(map), k.pos, k.refs)
        ELSE Try(r_object(d, ver, k.pos, k.refs), LAMBDA v :
            IF v.obj.t = "Null" THEN Ok(PyDict(map), v.pos, v.refs)
            ELSE Try(try_from(k.obj), LAMBDA h :
                r_hashmap(d, ver, v.pos, v.refs, IndexMapInsert(map, h.obj, v.obj)))))

\* count consecutive self.r_object()?.ok_or(Error::UnexpectedNull)?
r_fields(d, ver, pos, refs, count, acc) ==
    IF count = 0 THEN Ok(PyList(acc), pos, refs)
    ELSE Try(r_object(d, ver, pos, refs), LAMBDA r :
             IF r.obj.t = "Null" THEN Err("UnexpectedNull")
             ELSE r_fields(d, ver, r.pos, r.refs, count - 1, Append(acc, r.obj)))

\* The Kind::Code arm for 3.10: nints longs, nf1 objects, firstlineno, nf2 objects.
r_code(d, ver, pos, refs, layout, nints, nf1, nf2) ==
    Try(r_longs(d, pos, nints, <<>>), LAMBDA hd :
    Try(r_fields(d, ver, hd.pos, refs, nf1, <<>>), LAMBDA f1 :
    Try(r_int(d, f1.pos, 4, TRUE), LAMBDA ln :
    Try(r_fields(d, ver, ln.pos, f1.refs, nf2, <<>>), LAMBDA f2 :
        LET raw == Append(hd.obj.b, ln.obj.n)
            flagsAt == nints
            \* every field but flags goes through u32::try_from; flags is
            \* `as u32`, kept here as the i32 with the same bits
            ints == raw
            fields == f1.obj.s \o f2.obj.s
        IN IF \E i \in 1..Len(raw) : i # flagsAt /\ raw[i] < 0 THEN Err("InvalidConversion")
           ELSE Try(IF layout = 310 THEN Code310_new(ints, fields, f2.refs)
                    ELSE Code311_new(ints, fields, f2.refs),
                    LAMBDA c : Ok(c.obj, f2.pos, f2.refs))))))

\* f64 as its 8 little-endian bytes.  The decimal texts the model reads and
\* writes are those of 1.0 and 0.5; any other text is taken not to be a number.
F64_One == <<0, 0, 0, 0, 0, 0, 240, 63>>
F64_Half == <<0, 0, 0, 0, 0, 0, 224, 63>>
Txt_1 == <<49>>
Txt_1_0 == <<49, 46, 48>>
Txt_0_5 == <<48, 46, 53>>

\* str::parse::<f64>
parse_f64(text) ==
    IF text \in {Txt_1, Txt_1_0} THEN Ok(PyBytes(F64_One), 0, <<>>)
    ELSE IF text = Txt_0_5 THEN Ok(PyBytes(F64_Half), 0, <<>>)
    ELSE Err("InvalidString")

\* f64::to_string: the shortest text that parses back ("1" for 1.0)
f64_to_string(bits) == IF bits = F64_One THEN Txt_1 ELSE Txt_0_5

\* r_float_str
r_float_str(d, pos) ==
    Try(r_int(d, pos, 1, FALSE), LAMBDA n :
    Try(r_bytes(d, n.pos, n.obj.n), LAMBDA r :
    Try(parse_f64(r.obj.b), LAMBDA f : Ok(f.obj, r.pos, <<>>))))

\* The Kind::Ref arm without the lookup in self.references.
r_ref_unchecked(d, pos, refs) ==
    Try(r_int(d, pos, 4, TRUE), LAMBDA n : Ok(LoadRef(n.obj.n), n.pos, refs))

\* The Kind::Ref arm: r_long()? as usize (a negative index is far above any
\* length), then self.references.get(index).
r_ref(d, pos, refs) ==
    Try(r_int(d, pos, 4, TRUE), LAMBDA n :
        IF n.obj.n >= 0 /\ n.obj.n < Len(refs)
        THEN Ok(LoadRef(n.obj.n), n.pos, refs)
        ELSE Err("InvalidReference"))

\* The payload of one value: the big match of r_object.  refs already holds
\* the reserved slot, if any.
r_payload(d, ver, kind, flag, pos, refs) ==
    CASE kind = KindNull -> Ok(NullObj, pos, refs)
      [] kind = KindNone -> Ok(PyNone, pos, refs)
      [] kind = KindEllipsis -> Ok(PyEllipsis, pos, refs)
      [] kind = KindFalse -> Ok(PyBool(FALSE), pos, refs)
      [] kind = KindTrue -> Ok(PyBool(TRUE), pos, refs)
      [] kind = KindInt ->
            Try(r_long_object(d, pos, 4), LAMBDA r : Ok(r.obj, r.pos, refs))
      [] kind = KindInt64 ->
            Try(r_long_object(d, pos, 8), LAMBDA r : Ok(r.obj, r.pos, refs))
      [] kind = KindLong ->
            Try(r_int(d, pos, 4, TRUE), LAMBDA n :
                \* n.wrapping_abs() as usize: that of i32::MIN is more digits
                \* than any buffer holds
                LET size == IF n.obj.n = I32Min THEN Len(d) + 1
                            ELSE IF n.obj.n < 0 THEN -n.obj.n ELSE n.obj.n
                IN Try(r_digits(d, n.pos, size, 0, <<>>), LAMBDA m :
                       Ok(PyLong(IF m.obj.b = <<>> \/ n.obj.n = 0 THEN 0
                                 ELSE IF n.obj.n < 0 THEN -1 ELSE 1, m.obj.b),
                          m.pos, refs)))
      [] kind = KindBinaryFloat ->
            Try(r_bytes(d, pos, 8), LAMBDA r : Ok(PyFloat(r.obj.b), r.pos, refs))
      [] kind = KindBinaryComplex ->
            Try(r_bytes(d, pos, 16), LAMBDA r : Ok(PyComplex(r.obj.b), r.pos, refs))
      [] kind = KindString ->
            Try(r_int(d, pos, 4, TRUE), LAMBDA n :
            Try(r_bytes(d, n.pos, n.obj.n), LAMBDA r :
                Ok(r.obj, r.pos, refs)))
      [] kind \in StringKinds4 ->
            Try(r_int(d, pos, 4, TRUE), LAMBDA n :
            Try(r_bytes(d, n.pos, n.obj.n), LAMBDA r :
                Ok(PyString(r.obj.b, kind), r.pos, refs)))
      [] kind \in StringKinds1 ->
            Try(r_int(d, pos, 1, FALSE), LAMBDA n :
            Try(r_bytes(d, n.pos, n.obj.n), LAMBDA r :
                Ok(PyString(r.obj.b, kind), r.pos, refs)))
      [] kind = KindTuple ->
            Try(r_int(d, pos, 4, TRUE), LAMBDA n :
            Try(r_vec(d, ver, n.pos, refs, n.obj.n, KindTuple, <<>>), LAMBDA r :
                Ok(PyTuple(r.obj.s), r.pos, r.refs)))
      [] kind = KindSmallTuple ->
            Try(r_int(d, pos, 1, FALSE), LAMBDA n :
            Try(r_vec(d, ver, n.pos, refs, n.obj.n, KindTuple, <<>>), LAMBDA r :
                Ok(PyTuple(r.obj.s), r.pos, r.refs)))
      [] kind = KindList ->
            Try(r_int(d, pos, 4, TRUE), LAMBDA n :
            Try(r_vec(d, ver, n.pos, refs, n.obj.n, KindList, <<>>), LAMBDA r :
                Ok(PyList(r.obj.s), r.pos, r.refs)))
      [] kind = KindDict -> r_hashmap(d, ver, pos, refs, <<>>)
      [] kind = KindSet ->
            Try(r_int(d, pos, 4, TRUE), LAMBDA n :
            Try(r_vec(d, ver, n.pos, refs, n.obj.n, KindSet, <<>>), LAMBDA r :
            Try(hashable_elements(r.obj.s, r.refs), LAMBDA h :
                \* if flag { idx = Some(self.references.len());
                \*           self.set_reference(idx, ..) }: references[len]
                IF flag THEN Panic("index out of bounds in set_reference")
                ELSE Ok(PySet(h.obj.s), r.pos, r.refs))))
      [] kind = KindFrozenSet ->
            Try(r_int(d, pos, 4, TRUE), LAMBDA n :
            Try(r_vec(d, ver, n.pos, refs, n.obj.n, KindFrozenSet, <<>>), LAMBDA r :
            Try(hashable_elements(r.obj.s, r.refs), LAMBDA h :
                Ok(PyFrozenSet(h.obj.s), r.pos, r.refs))))
      [] kind = KindCode ->
            IF ver.major = 3 /\ ver.minor = 10
            THEN r_code(d, ver, pos, refs, 310, 6, 8, 1)
            ELSE IF ver.major = 3 /\ ver.minor \in {11, 12, 13}
            THEN r_code(d, ver, pos, refs, 311, 5, 8, 2)
            ELSE Panic("Unsupported version")
      [] kind = KindRef -> r_ref(d, pos, refs)
      [] kind = KindUnknown -> Err("InvalidKind")
      [] kind \in {KindStopIteration, KindFlagRef} -> Panic("todo!()")
      [] kind = KindFloat ->
            Try(r_float_str(d, pos), LAMBDA r : Ok(PyFloat(r.obj.b), r.pos, refs))
      [] kind = KindComplex ->
            Try(r_float_str(d, pos), LAMBDA re :
            Try(r_float_str(d, re.pos), LAMBDA im :
                Ok(PyComplex(re.obj.b \o im.obj.b), im.pos, refs)))

\* The slot bookkeeping that ends r_object.
r_finish(r, flag, idx) ==
    LET store == r.obj.t \notin Unstorable /\ flag
        refs2 == IF store /\ idx >= 0 THEN [r.refs EXCEPT ![idx + 1] = r.obj]
                 ELSE IF store THEN Append(r.refs, r.obj)
                 ELSE r.refs
        idx2 == IF store /\ idx < 0 THEN Len(r.refs) ELSE idx
    IN IF flag
       THEN IF idx2 < 0 THEN Err("InvalidReference")
            ELSE Ok(StoreRef(idx2), r.pos, refs2)
       ELSE Ok(r.obj, r.pos, refs2)

r_object(d, ver, pos, refs) ==
    IF Remaining(d, pos) < 1 THEN Err("InvalidData")
    ELSE LET code == d[pos + 1]
             flag == code >= KindFlagRef
             kind == code % KindFlagRef
         IN IF kind \notin Kinds THEN Err("UnreadableKind")
            ELSE LET reserve == flag /\ kind \in ReservedKinds
                     refs1 == IF reserve THEN Append(refs, PyNone) ELSE refs
                     idx == IF reserve THEN Len(refs) ELSE -1
                 IN Try(r_payload(d, ver, kind, flag, pos + 1, refs1),
                        LAMBDA r : r_finish(r, flag, idx))

\* PyReader::read_object
read_object(d, ver) ==
    IF Len(d) = 0 THEN Panic("EOF, don't know what to do")
    ELSE Try(r_object(d, ver, 0, <<>>), LAMBDA r :
             IF r.obj.t = "Null" THEN Err("UnexpectedObject") ELSE r)

\* PyVersion < (major, minor): the derived ordering on (major, minor, patch)
\* against PyVersion::new(major, minor), whose patch is 0.
VersionLess(v, major, minor) ==
    \/ v.major < major
    \/ v.major = major /\ v.minor < minor
    \/ v.major = major /\ v.minor = minor /\ v.patch < 0

\* load_bytes
load_bytes(d, ver) ==
    IF VersionLess(ver, 3, 0) THEN Err("UnsupportedPyVersion")
    ELSE read_object(d, ver)


(***************************************************************************)
(* PyWriter (writer.rs).  A write returns Ok with obj.b the bytes appended *)
(* to self.data; depth is self.depth when the call is made.                *)
(***************************************************************************)
MAX_DEPTH == 2000

\* w_kind
w_kind(kind, is_ref) == <<IF is_ref THEN kind + KindFlagRef ELSE kind>>

\* A range test that stops at 30 bits.
InI30(o) == Len(o.b) <= 2

\* num >= i32::MIN && num <= i32::MAX on the digits of num
InI32(o) ==
    \/ Len(o.b) <= 2
    \/ Len(o.b) = 3 /\ o.b[3] = 1
    \/ Len(o.b) = 3 /\ o.b[3] = 2 /\ o.b[1] = 0 /\ o.b[2] = 0 /\ o.n = -1

\* num.to_i32().to_le_bytes() of a num in the i32 range
I32Bytes(o) ==
    IF Len(o.b) = 3 /\ o.b[3] = 2 THEN <<0, 0, 0, 128>>
    ELSE LET at(j) == IF j <= Len(o.b) THEN o.b[j] ELSE 0 IN
         LE(o.n * (at(1) + Pow2(15) * at(2) + Pow2(30) * at(3)), 4)

RECURSIVE FlatLE16(_)
FlatLE16(digits) ==
    IF digits = <<>> THEN <<>> ELSE LE(Head(digits), 2) \o FlatLE16(Tail(digits))

\* w_PyLong: the digits are value & 0x7FFF, value >>= 15 while value > 0
w_PyLong(num) ==
    LE(IF num.n < 0 THEN -Len(num.b) ELSE Len(num.b), 4) \o FlatLE16(num.b)

\* w_float_str: w_string(&value.to_string().into(), true)
w_float_str(bits) ==
    LET text == f64_to_string(bits) IN LE(Len(text), 1) \o text

\* try_into::<i32>() of the u32 header fields of a code object, each w_long
\* (a u32 above i32::MAX is kept as the negative i32 with the same bits)
RECURSIVE w_code_ints(_)
w_code_ints(ints) ==
    IF ints = <<>> THEN Ok(PyBytes(<<>>), 0, <<>>)
    ELSE IF Head(ints) < 0 THEN Err("InvalidConversion")
    ELSE LET r == w_code_ints(Tail(ints)) IN
         IF r.st # "ok" THEN r ELSE Ok(PyBytes(LE(Head(ints), 4) \o r.obj.b), 0, <<>>)

RECURSIVE w_object(_, _, _, _, _), w_items(_, _, _, _, _)

\* for item in items { self.w_object(Some(item), false)? }; hashable is TRUE
\* for the elements of a set or frozenset and the keys of a dict, which go
\* through Object::from first.
w_items(items, hashable, depth, refs, mv) ==
    IF items = <<>> THEN Ok(PyBytes(<<>>), depth, <<>>)
    ELSE LET it == IF hashable[1] THEN from_hashable(Head(items)) ELSE Head(items)
             r == w_object(it, FALSE, depth, refs, mv)
         IN IF r.st # "ok" THEN r
            ELSE LET rest == w_items(Tail(items), Tail(hashable), depth, refs, mv) IN
                 IF rest.st # "ok" THEN rest
                 ELSE Ok(PyBytes(r.obj.b \o rest.obj.b), depth, <<>>)

AllFalse(n) == [i \in 1..n |-> FALSE]
AllTrue(n) == [i \in 1..n |-> TRUE]
KeysTrue(n) == [i \in 1..n |-> i % 2 = 1]

\* The bytes of a code object: the header longs, the first eight object
\* fields, firstlineno, the remaining object fields.
w_code(o, is_ref, depth, refs, mv) ==
    LET nints == Len(o.b) - 1
        hd == w_code_ints(SubSeq(o.b, 1, nints))
        ln == w_code_ints(<<o.b[nints + 1]>>)
    IN IF hd.st # "ok" THEN hd
       ELSE LET f1 == w_items(SubSeq(o.s, 1, 8), AllFalse(8), depth, refs, mv) IN
       IF f1.st # "ok" THEN f1
       ELSE IF ln.st # "ok" THEN ln
       ELSE LET f2 == w_items(SubSeq(o.s, 9, Len(o.s)), AllFalse(Len(o.s) - 8), depth, refs, mv) IN
       IF f2.st # "ok" THEN f2
       ELSE Ok(PyBytes(w_kind(KindCode, is_ref) \o hd.obj.b \o f1.obj.b \o ln.obj.b \o f2.obj.b),
               depth, <<>>)

\* The match of w_object; depth is self.depth after the increment.
w_payload(o, is_ref, depth, refs, mv) ==
    CASE o.t = "Null" -> Ok(PyBytes(w_kind(KindNull, is_ref)), depth, <<>>)
      [] o.t = "None" -> Ok(PyBytes(w_kind(KindNone, is_ref)), depth, <<>>)
      [] o.t = "StopIteration" -> Ok(PyBytes(w_kind(KindStopIteration, is_ref)), depth, <<>>)
      [] o.t = "Ellipsis" -> Ok(PyBytes(w_kind(KindEllipsis, is_ref)), depth, <<>>)
      [] o.t = "Bool" ->
            Ok(PyBytes(w_kind(IF o.n = 1 THEN KindTrue ELSE KindFalse, is_ref)), depth, <<>>)
      [] o.t = "Long" ->
            IF InI32(o)
            THEN Ok(PyBytes(w_kind(KindInt, is_ref) \o I32Bytes(o)), depth, <<>>)
            ELSE Ok(PyBytes(w_kind(KindLong, is_ref) \o w_PyLong(o)), depth, <<>>)
      [] o.t = "Float" ->
            IF mv > 1
            THEN Ok(PyBytes(w_kind(KindBinaryFloat, is_ref) \o o.b), depth, <<>>)
            ELSE Ok(PyBytes(w_kind(KindFloat, is_ref) \o w_float_str(o.b)), depth, <<>>)
      [] o.t = "Complex" ->
            IF mv > 1
            THEN Ok(PyBytes(w_kind(KindBinaryComplex, is_ref) \o o.b), depth, <<>>)
            ELSE Ok(PyBytes(w_kind(KindComplex, is_ref)
                            \o w_float_str(SubSeq(o.b, 1, 8))
                            \o w_float_str(SubSeq(o.b, 9, 16))), depth, <<>>)
      [] o.t = "Bytes" ->
            Ok(PyBytes(w_kind(KindString, is_ref) \o LE(Len(o.b), 4) \o o.b), depth, <<>>)
      [] o.t = "String" ->
            IF o.n \in {KindASCII, KindASCIIInterned, KindInterned, KindUnicode}
            THEN Ok(PyBytes(w_kind(o.n, is_ref) \o LE(Len(o.b), 4) \o o.b), depth, <<>>)
            ELSE IF o.n \in {KindShortAscii, KindShortAsciiInterned}
            THEN Ok(PyBytes(w_kind(o.n, is_ref) \o LE(Len(o.b), 1) \o o.b), depth, <<>>)
            ELSE Panic("Invalid string kind")
      [] o.t = "Tuple" ->
            LET r == w_items(o.s, AllFalse(Len(o.s)), depth, refs, mv)
                hd == IF mv >= 4 /\ Len(o.s) <= 255
                      THEN w_kind(KindSmallTuple, is_ref) \o LE(Len(o.s), 1)
                      ELSE w_kind(KindTuple, is_ref) \o LE(Len(o.s), 4)
            IN IF r.st # "ok" THEN r ELSE Ok(PyBytes(hd \o r.obj.b), depth, <<>>)
      [] o.t = "List" ->
            LET r == w_items(o.s, AllFalse(Len(o.s)), depth, refs, mv) IN
            IF r.st # "ok" THEN r
            ELSE Ok(PyBytes(w_kind(KindList, is_ref) \o LE(Len(o.s), 4) \o r.obj.b), depth, <<>>)
      [] o.t = "Dict" ->
            LET r == w_items(o.s, KeysTrue(Len(o.s)), depth, refs, mv) IN
            IF r.st # "ok" THEN r
            ELSE Ok(PyBytes(w_kind(KindDict, is_ref) \o r.obj.b \o w_kind(KindNull, is_ref)),
                    depth, <<>>)
      [] o.t = "Set" ->
            LET r == w_items(o.s, AllTrue(Len(o.s)), depth, refs, mv) IN
            IF r.st # "ok" THEN r
            ELSE Ok(PyBytes(w_kind(KindSet, is_ref) \o LE(Len(o.s), 4) \o r.obj.b), depth, <<>>)
      [] o.t = "FrozenSet" ->
            LET r == w_items(o.s, AllTrue(Len(o.s)), depth, refs, mv) IN
            IF r.st # "ok" THEN r
            ELSE Ok(PyBytes(w_kind(KindFrozenSet, is_ref) \o LE(Len(o.s), 4) \o r.obj.b),
                    depth, <<>>)
      [] o.t = "Code" -> w_code(o, is_ref, depth, refs, mv)
      [] o.t = "LoadRef" ->
            IF o.n >= 0 /\ o.n < Len(refs)
            THEN Ok(PyBytes(w_kind(KindRef, is_ref) \o LE(o.n, 4)), depth, <<>>)
            ELSE Panic("Reference not found in references list")
      [] o.t = "StoreRef" ->
            IF o.n >= 0 /\ o.n < Len(refs)
            THEN w_object(refs[o.n + 1], TRUE, depth, refs, mv)
            ELSE Err("InvalidReference")

\* w_object: depth is self.depth on entry; it is one more inside the call and
\* back to depth when the call returns Ok.
w_object(o, is_ref, depth, refs, mv) ==
    IF depth + 1 > MAX_DEPTH THEN Err("DepthLimitExceeded")
    ELSE LET r == w_payload(o, is_ref, depth + 1, refs, mv) IN
         IF r.st # "ok" THEN r ELSE Ok(r.obj, depth, <<>>)

\* PyWriter::write_object
write_object(o, refs, mv) == w_object(o, FALSE, 0, refs, mv)

\* dump_bytes; no_refs is references == None
dump_bytes(o, refs, no_refs, ver, mv) ==
    IF VersionLess(ver, 3, 0) THEN Err("UnsupportedPyVersion")
    ELSE write_object(o, IF no_refs THEN <<>> ELSE refs, mv)


(***************************************************************************)
(* Inputs of the codec: byte strings made of up to MaxTokens chunks, each  *)
(* chunk a tag with its fixed payload, and whole code objects.             *)
(***************************************************************************)
MaxTokens == 3

T_None == <<KindNone>>
T_Null == <<KindNull>>
T_Int == <<KindInt, 1, 0, 0, 0>>
T_IntCut == <<KindInt, 1>>
T_ListF == <<KindList + KindFlagRef, 1, 0, 0, 0>>
T_Dict == <<KindDict>>
T_DictF == <<KindDict + KindFlagRef>>
T_StrF == <<KindShortAscii + KindFlagRef, 1, 97>>
T_Ref0 == <<KindRef, 0, 0, 0, 0>>
T_RefNeg == <<KindRef, 255, 255, 255, 255>>
T_SetF == <<KindSet + KindFlagRef, 0, 0, 0, 0>>
T_BadTag == <<64>>

Tokens ==
    {T_None, T_Null, T_Int, T_IntCut, T_ListF, T_Dict, T_DictF, T_StrF, T_Ref0,
     T_RefNeg, T_SetF, T_BadTag}

RECURSIVE Flatten(_)
Flatten(chunks) == IF chunks = <<>> THEN <<>> ELSE Head(chunks) \o Flatten(Tail(chunks))

TokenStrings ==
    {Flatten(ts) : ts \in UNION {[1..n -> Tokens] : n \in 0..MaxTokens}}

T_EmptyBytes == <<KindString, 0, 0, 0, 0>>
T_EmptyTuple == <<KindSmallTuple, 0>>
T_Name == <<KindShortAscii, 1, 110>>
T_NameF == <<KindShortAscii + KindFlagRef, 1, 110>>

\* A 3.10 code object: argcount, posonlyargcount, kwonlyargcount, nlocals,
\* stacksize, flags, code, consts, names, varnames, freevars, cellvars,
\* filename, name, firstlineno, lnotab.
CodeBytes310(flagged) ==
    <<IF flagged THEN KindCode + KindFlagRef ELSE KindCode>>
    \o LE(0, 4) \o LE(0, 4) \o LE(0, 4) \o LE(0, 4) \o LE(1, 4) \o LE(64, 4)
    \o T_EmptyBytes \o T_EmptyTuple \o T_EmptyTuple \o T_EmptyTuple
    \o T_EmptyTuple \o T_EmptyTuple
    \o (IF flagged THEN T_NameF ELSE T_Name) \o T_Name \o LE(1, 4) \o T_EmptyBytes

\* A 3.11 code object: argcount, posonlyargcount, kwonlyargcount, stacksize,
\* flags, code, consts, names, localsplusnames, localspluskinds, filename,
\* name, qualname, firstlineno, linetable, exceptiontable.
CodeBytes311(flagged) ==
    <<IF flagged THEN KindCode + KindFlagRef ELSE KindCode>>
    \o LE(0, 4) \o LE(0, 4) \o LE(0, 4) \o LE(1, 4) \o LE(64, 4)
    \o T_EmptyBytes \o T_EmptyTuple \o T_EmptyTuple \o T_EmptyTuple \o T_EmptyBytes
    \o (IF flagged THEN T_NameF ELSE T_Name) \o T_Name \o T_Name \o LE(1, 4)
    \o T_EmptyBytes \o T_EmptyBytes

CodeInputs ==
    {CodeBytes310(FALSE), CodeBytes310(TRUE), CodeBytes311(FALSE), CodeBytes311(TRUE)}

\* Text and binary floats, small and large tuples, a two-digit long.
NumberInputs ==
    {<<KindFloat, 3>> \o Txt_1_0, <<KindFloat, 1>> \o Txt_1, <<KindFloat, 1, 97>>,
     <<KindBinaryFloat>> \o F64_One, <<KindBinaryFloat>> \o F64_Half,
     <<KindComplex, 1>> \o Txt_1 \o <<3>> \o Txt_0_5,
     <<KindBinaryComplex>> \o F64_One \o F64_Half,
     <<KindSmallTuple, 1>> \o T_None, <<KindTuple>> \o LE(1, 4) \o T_None,
     <<KindLong>> \o LE(3, 4) \o LE(0, 2) \o LE(0, 2) \o LE(2, 2),
     <<KindLong>> \o LE(-3, 4) \o LE(0, 2) \o LE(0, 2) \o LE(2, 2),
     <<KindInt>> \o LE(-1, 4), <<KindStopIteration>>, <<KindString>> \o LE(-1, 4)}

\* Flagged containers whose child loads the slot of the container, the
\* zero-payload tags and a back-reference with the flag set.
FlagInputs ==
    {<<KindTuple + KindFlagRef>> \o LE(1, 4) \o T_Ref0,
     <<KindSmallTuple + KindFlagRef, 1>> \o T_Ref0,
     <<KindList + KindFlagRef>> \o LE(1, 4) \o T_Ref0,
     <<KindFrozenSet + KindFlagRef>> \o LE(1, 4) \o T_None,
     <<KindSet + KindFlagRef>> \o LE(1, 4) \o T_None,
     T_DictF \o T_None \o T_Ref0 \o T_Null,
     <<KindNone + KindFlagRef>>, <<KindTrue + KindFlagRef>>, <<KindTrue>>,
     <<KindFalse + KindFlagRef>>, <<KindFalse>>,
     <<KindEllipsis + KindFlagRef>>, <<KindEllipsis>>,
     <<KindStopIteration + KindFlagRef>>,
     <<KindSmallTuple, 2>> \o T_ListF \o T_None \o <<KindRef + KindFlagRef, 0, 0, 0, 0>>,
     <<KindSmallTuple, 2>> \o T_ListF \o T_None \o T_Ref0}

\* Arbitrary-precision integers: digits at and around 2^15, a zero top
\* digit, no digit at all.
LongInputs ==
    {<<KindLong>> \o LE(1, 4) \o LE(32767, 2), <<KindLong>> \o LE(1, 4) \o LE(32768, 2),
     <<KindLong>> \o LE(1, 4) \o LE(32769, 2), <<KindLong>> \o LE(-1, 4) \o LE(65535, 2),
     <<KindLong>> \o LE(2, 4) \o LE(32768, 2) \o LE(1, 2),
     <<KindLong>> \o LE(2, 4) \o LE(1, 2) \o LE(0, 2),
     <<KindLong>> \o LE(-2, 4) \o LE(1, 2) \o LE(0, 2),
     <<KindLong>> \o LE(1, 4) \o LE(1, 2), <<KindLong>> \o LE(-1, 4) \o LE(1, 2),
     <<KindLong>> \o LE(1, 4) \o LE(0, 2), <<KindLong>> \o LE(0, 4)}

\* A tuple holding a list as a dict key and as a set or frozenset element,
\* and a tuple of hashable elements in the same places.
KeyInputs ==
    {T_Dict \o <<KindSmallTuple, 1, KindList>> \o LE(0, 4) \o T_None \o T_Null,
     <<KindSet>> \o LE(1, 4) \o <<KindSmallTuple, 1, KindList>> \o LE(0, 4),
     <<KindFrozenSet>> \o LE(1, 4) \o <<KindSmallTuple, 1, KindList>> \o LE(0, 4),
     <<KindSet>> \o LE(1, 4) \o <<KindSmallTuple, 1, KindSmallTuple, 1, KindDict, KindNull>>,
     T_Dict \o <<KindSmallTuple, 1>> \o T_None \o T_None \o T_Null,
     <<KindFrozenSet>> \o LE(1, 4) \o <<KindSmallTuple, 1>> \o T_None,
     T_Dict \o <<KindList>> \o LE(0, 4) \o T_None \o T_Null}

PyVersion(major, minor) == [major |-> major, minor |-> minor, patch |-> 0]

Py27 == PyVersion(2, 7)
Py39 == PyVersion(3, 9)
Py310 == PyVersion(3, 10)
Py311 == PyVersion(3, 11)
Py312 == PyVersion(3, 12)
Py313 == PyVersion(3, 13)
Py314 == PyVersion(3, 14)

Versions == {Py27, Py39, Py310, Py311, Py312, Py313, Py314}

\* The marshal format revisions a dump is asked for.
MarshalVersions == {1, 4}

NoResult == [st |-> "none", e |-> "", obj |-> NullObj, pos |-> 0, refs |-> <<>>]

\* No PyWriter has been constructed.
NoWriter == [data |-> <<>>, marshal_version |-> 0, references |-> <<>>, depth |-> 0,
             calls |-> <<>>]

\* The calls load_bytes(data, version): every token string under 3.10, the
\* code objects and the number inputs under every version.
CodecCalls ==
    (TokenStrings \X {Py310}) \cup ((CodeInputs \cup NumberInputs \cup {<<>>}) \X Versions)
    \cup ((FlagInputs \cup LongInputs \cup KeyInputs) \X {Py310})

Init ==
    /\ \E c \in CodecCalls : data = c[1] /\ version = c[2]
    /\ pc = "start"
    /\ marshal_version = 0
    /\ object = NullObj
    /\ references = <<>>
    /\ result = NoResult
    /\ dumped = NoResult
    /\ aux = NoResult
    /\ no_table = FALSE
    /\ writer = NoWriter

\* (object, references) = load_bytes(data, version)
Load ==
    /\ pc = "start"
    /\ result' = load_bytes(data, version)
    /\ object' = result'.obj
    /\ references' = result'.refs
    /\ pc' = "loaded"
    /\ UNCHANGED <<data, version, marshal_version, dumped, aux,
                   no_table, writer>>

\* dump_bytes(object, Some(references), version, marshal_version) of what was
\* loaded
Dump ==
    /\ pc = "loaded"
    /\ result.st = "ok"
    /\ \E mv \in MarshalVersions :
          /\ marshal_version' = mv
          /\ dumped' = dump_bytes(object, references, FALSE, version, mv)
    /\ pc' = "dumped"
    /\ UNCHANGED <<data, version, object, references, result, aux,
                   no_table, writer>>

\* dump_bytes of a loaded value for a version below 3.0
DumpOld ==
    /\ pc = "loaded"
    /\ result.st = "ok"
    /\ \E mv \in MarshalVersions :
          /\ marshal_version' = mv
          /\ aux' = dump_bytes(object, references, FALSE, Py27, mv)
    /\ pc' = "dumped_old"
    /\ UNCHANGED <<data, version, object, references, result, dumped,
                   no_table, writer>>

Next == Load \/ Dump \/ DumpOld

Spec == Init /\ [][Next]_vars


(***************************************************************************)
(* Placeholders in a value.                                                *)
(***************************************************************************)
LoadNames == {"LoadRef", "HLoadRef"}
StoreNames == {"StoreRef", "HStoreRef"}

RECURSIVE SumSeq(_)
SumSeq(ns) == IF ns = <<>> THEN 0 ELSE Head(ns) + SumSeq(Tail(ns))

\* How many placeholders of the given variants carry index i in o.
RECURSIVE CountRef(_, _, _)
CountRef(o, names, i) ==
    (IF o.t \in names /\ o.n = i THEN 1 ELSE 0)
    + SumSeq([j \in 1..Len(o.s) |-> CountRef(o.s[j], names, i)])

\* The indices of the placeholders of the given variants in o.
RECURSIVE RefIndices(_, _)
RefIndices(o, names) ==
    (IF o.t \in names THEN {o.n} ELSE {})
    \cup UNION {RefIndices(o.s[j], names) : j \in 1..Len(o.s)}

\* The same over a root and every entry of its table.
GraphIndices(root, table, names) ==
    RefIndices(root, names) \cup UNION {RefIndices(table[j], names) : j \in 1..Len(table)}

GraphCount(root, table, names, i) ==
    CountRef(root, names, i) + SumSeq([j \in 1..Len(table) |-> CountRef(table[j], names, i)])

(***************************************************************************)
(* Properties of the codec.                                                *)
(***************************************************************************)
HasByte(d, kind) == \E i \in 1..Len(d) : d[i] % KindFlagRef = kind

\* The revision agrees with the revision-dependent tags of d: small tuples
\* need revision 4, four-byte-length tuples a lower one, binary floats a
\* revision above 1, text floats revision 0 or 1.  A byte equal to such a tag
\* counts wherever it stands.
RevisionMatches(d, mv) ==
    /\ HasByte(d, KindSmallTuple) => mv >= 4
    /\ HasByte(d, KindTuple) => mv < 4
    /\ (HasByte(d, KindBinaryFloat) \/ HasByte(d, KindBinaryComplex)) => mv > 1
    /\ (HasByte(d, KindFloat) \/ HasByte(d, KindComplex)) => mv <= 1

\* C1: every input that load_bytes decodes (here: decodes to the last byte)
\* is reproduced byte for byte by dump_bytes on the loaded root and table,
\* under a revision that matches the input's tags, flagged values included.
C1_RoundTrip ==
    (/\ pc = "dumped"
     /\ result.st = "ok"
     /\ result.pos = Len(data)
     /\ RevisionMatches(data, marshal_version))
    => (dumped.st = "ok" /\ dumped.obj.b = data)

\* d is a chain of k flagged one-element lists around a back-reference whose
\* index is negative or not below k, the number of slots created before it.
RECURSIVE BadBackRef(_, _)
BadBackRef(d, k) ==
    IF Len(d) >= 5 /\ d[1] = KindRef
    THEN FromLE32(d, 1) < 0 \/ FromLE32(d, 1) >= k
    ELSE IF Len(d) >= 5 /\ SubSeq(d, 1, 5) = T_ListF
    THEN BadBackRef(SubSeq(d, 6, Len(d)), k + 1)
    ELSE FALSE

AllRefNames == LoadNames \cup StoreNames

\* C8 as stated: after a successful load every placeholder index is below the
\* table length and every slot is the index of exactly one StoreRef; a bad
\* back-reference fails with InvalidReference.
C8_ExactlyOneStore ==
    pc = "loaded" =>
        /\ result.st = "ok" =>
              /\ \A i \in GraphIndices(object, references, AllRefNames) :
                    i >= 0 /\ i < Len(references)
              /\ \A i \in 0..(Len(references) - 1) :
                    GraphCount(object, references, StoreNames, i) = 1
        /\ BadBackRef(data, 0) => result = Err("InvalidReference")

\* C8, amended: after a successful load every placeholder index is below the
\* table length and every slot is the index of at most one StoreRef; a bad
\* back-reference fails with InvalidReference and yields no LoadRef.
C8_ReaderWellFormed ==
    pc = "loaded" =>
        /\ result.st = "ok" =>
              /\ \A i \in GraphIndices(object, references, AllRefNames) :
                    i >= 0 /\ i < Len(references)
              /\ \A i \in 0..(Len(references) - 1) :
                    GraphCount(object, references, StoreNames, i) <= 1
        /\ BadBackRef(data, 0) => result = Err("InvalidReference")

\* A load that produced a back-reference into a slot created before it.
C8_Witness ==
    /\ pc = "loaded"
    /\ result.st = "ok"
    /\ GraphIndices(object, references, LoadNames) # {}
    /\ Len(references) >= 1

\* Whole values, whose strict prefixes are truncated buffers.
WholeValues ==
    {T_Int, T_ListF \o T_Int, T_ListF \o T_ListF \o T_None, T_Dict \o T_Null,
     T_Dict \o T_None \o T_None \o T_Null, T_StrF, CodeBytes310(FALSE)}

Truncated(d) ==
    d # <<>> /\ \E w \in WholeValues : Len(d) < Len(w) /\ d = SubSeq(w, 1, Len(d))

\* The malformed buffers of C9: empty, cut inside a value, led by a byte that
\* is no Kind, led by the NULL tag.
Malformed(d) ==
    \/ d = <<>>
    \/ Truncated(d)
    \/ d # <<>> /\ d[1] % KindFlagRef \notin Kinds
    \/ d # <<>> /\ d[1] = KindNull

\* C9: on a malformed buffer load_bytes returns an Err; it does not abort.
C9_NoAbort == (pc = "loaded" /\ Malformed(data)) => result.st = "err"

\* The versions the Kind::Code arm has a layout for.
HasLayout(v) == v.major = 3 /\ v.minor \in 10..13

\* The code object a loaded root stands for.
RootValue == IF object.t = "StoreRef" THEN references[object.n + 1] ELSE object

\* C10: load_bytes and dump_bytes return UnsupportedPyVersion below 3.0; a
\* code tag under a version without a layout makes load_bytes return an Err;
\* 3.10 reads the 3.10 layout and 3.11 to 3.13 the shared newer one.
C10_VersionErrors ==
    /\ (pc = "loaded" /\ VersionLess(version, 3, 0)) => result = Err("UnsupportedPyVersion")
    /\ pc = "dumped_old" => aux = Err("UnsupportedPyVersion")
    /\ (pc = "loaded" /\ data \in CodeInputs /\ ~VersionLess(version, 3, 0)
            /\ ~HasLayout(version)) => result.st = "err"
    /\ (pc = "loaded" /\ data \in CodeInputs /\ result.st = "ok") =>
          RootValue.n = (IF version.minor = 10 THEN 310 ELSE 311)


(***************************************************************************)
(* The version table (magic.rs) and the .pyc framing (lib.rs).  A u32 or   *)
(* u64 header field is kept as its little-endian bytes.                    *)
(***************************************************************************)
Magic(low) == LE(low, 2) \o <<13, 10>>

MAGIC_NUMBERS ==
    << <<Magic(3131), PyVersion(3, 0)>>, <<Magic(3151), PyVersion(3, 1)>>,
       <<Magic(3180), PyVersion(3, 2)>>, <<Magic(3230), PyVersion(3, 3)>>,
       <<Magic(3310), PyVersion(3, 4)>>, <<Magic(3350), PyVersion(3, 5)>>,
       <<Magic(3379), PyVersion(3, 6)>>, <<Magic(3394), PyVersion(3, 7)>>,
       <<Magic(3413), PyVersion(3, 8)>>, <<Magic(3425), PyVersion(3, 9)>>,
       <<Magic(3439), PyVersion(3, 10)>>, <<Magic(3495), PyVersion(3, 11)>>,
       <<Magic(3531), PyVersion(3, 12)>>, <<Magic(3571), PyVersion(3, 13)>> >>

\* The first entry of MAGIC_NUMBERS that satisfies Test, or 0.
FindMagic(Test(_)) ==
    LET hits == {i \in 1..Len(MAGIC_NUMBERS) : Test(MAGIC_NUMBERS[i])} IN
    IF hits = {} THEN 0 ELSE CHOOSE i \in hits : \A j \in hits : i <= j

\* PyVersion::from_magic
from_magic(magic) ==
    LET Test(entry) == entry[1] = magic
        i == FindMagic(Test)
    IN IF i = 0 THEN Err("UnsupportedMagicNumber")
       ELSE [Ok(NullObj, 0, <<>>) EXCEPT !.obj = MAGIC_NUMBERS[i][2]]

\* PyVersion::to_magic: the entry must equal the version, patch included
to_magic(ver) ==
    LET Test(entry) == entry[2] = ver
        i == FindMagic(Test)
    IN IF i = 0 THEN Err("UnsupportedPyVersion")
       ELSE Ok(PyBytes(MAGIC_NUMBERS[i][1]), 0, <<>>)

PycFile(ver, has_timestamp, timestamp, hash, o, refs) ==
    [python_version |-> ver, has_timestamp |-> has_timestamp, timestamp |-> timestamp,
     hash |-> hash, object |-> o, references |-> refs]

\* load_pyc: data[a..b] aborts when the buffer is shorter than b
load_pyc(d) ==
    IF Len(d) < 4 THEN Panic("range end index 4 out of range")
    ELSE LET v == from_magic(SubSeq(d, 1, 4)) IN
    IF v.st # "ok" THEN v
    ELSE LET ver == v.obj
             new == ~VersionLess(ver, 3, 7)
         IN
    IF new /\ Len(d) < 8 THEN Panic("range end index 8 out of range")
    ELSE IF new /\ Len(d) < 16 THEN Panic("range end index 16 out of range")
    ELSE IF ~new /\ Len(d) < 12 THEN Panic("range end index 12 out of range")
    ELSE IF Len(d) < 16 THEN Panic("range start index 16 out of range")
    ELSE LET r == load_bytes(SubSeq(d, 17, Len(d)), ver) IN
         IF r.st # "ok" THEN r
         ELSE [Ok(NullObj, r.pos, <<>>) EXCEPT
                  !.obj = PycFile(ver, new,
                                  IF new THEN SubSeq(d, 5, 8) ELSE <<>>,
                                  IF new THEN SubSeq(d, 9, 16) ELSE SubSeq(d, 5, 12),
                                  r.obj, r.refs)]

\* dump_pyc: PyWriter::new(references, 4)
dump_pyc(pyc_file) ==
    LET m == to_magic(pyc_file.python_version) IN
    IF m.st # "ok" THEN m
    ELSE LET w == write_object(pyc_file.object, pyc_file.references, 4) IN
         IF w.st # "ok" THEN w
         ELSE Ok(PyBytes(m.obj.b
                         \o (IF pyc_file.has_timestamp THEN pyc_file.timestamp ELSE <<>>)
                         \o pyc_file.hash \o w.obj.b), 0, <<>>)


(***************************************************************************)
(* The .pyc calls: a magic number, twelve further header bytes and a       *)
(* payload of up to MaxPycTokens chunks, and the cut headers.              *)
(***************************************************************************)
MaxPycTokens == 2

PycMagics == {Magic(3379), Magic(3394), Magic(3439), Magic(3000)}

PycHeaderRest == <<1, 2, 3, 4, 5, 6, 7, 8, 9, 10, 11, 12>>

PycPayloads ==
    {Flatten(ts) : ts \in UNION {[1..n -> Tokens] : n \in 0..MaxPycTokens}}

PycInputs ==
    {m \o PycHeaderRest \o p : m \in PycMagics, p \in PycPayloads}
    \cup {SubSeq(m \o PycHeaderRest, 1, k) : m \in PycMagics, k \in 0..15}

InitPyc ==
    /\ data \in PycInputs
    /\ version = Py310
    /\ pc = "start"
    /\ marshal_version = 4
    /\ object = NullObj
    /\ references = <<>>
    /\ result = NoResult
    /\ dumped = NoResult
    /\ aux = NoResult
    /\ no_table = FALSE
    /\ writer = NoWriter

\* pyc_file = load_pyc(data)
LoadPyc ==
    /\ pc = "start"
    /\ aux' = load_pyc(data)
    /\ pc' = "pyc_loaded"
    /\ UNCHANGED <<data, version, marshal_version, object, references, result, dumped,
                   no_table, writer>>

\* dump_pyc(writer, pyc_file)
DumpPyc ==
    /\ pc = "pyc_loaded"
    /\ aux.st = "ok"
    /\ dumped' = dump_pyc(aux.obj)
    /\ pc' = "pyc_dumped"
    /\ UNCHANGED <<data, version, marshal_version, object, references, result, aux,
                   no_table, writer>>

NextPyc == LoadPyc \/ DumpPyc

SpecPyc == InitPyc /\ [][NextPyc]_vars

\* C2: every container that load_pyc accepts is reproduced byte for byte by
\* dump_pyc, header and payload, below 3.7 as well as from 3.7 on.
C2_PycRoundTrip ==
    (pc = "pyc_dumped" /\ aux.st = "ok" /\ aux.pos = Len(data) - 16)
    => (dumped.st = "ok" /\ dumped.obj.b = data)

(***************************************************************************)
(* The reference optimizer (optimizer.rs).                                 *)
(***************************************************************************)
\* The children the visitors of ReferenceCounter and ReferenceOptimizer walk:
\* the elements of a tuple, list, set or frozenset, the values (not the keys)
\* of a dict, the object fields of a code object.
IsWalked(o, j) == IF o.t = "Dict" THEN j % 2 = 0 ELSE TRUE

\* ReferenceCounter: the indices of the LoadRefs met from o, following every
\* StoreRef into the table; stack holds the StoreRefs being followed (one met
\* again is a recursion without end).  The result is {-1} for that abort.
RECURSIVE references_used(_, _, _)
references_used(o, refs, stack) ==
    IF o.t \in LoadNames THEN {o.n}
    ELSE IF o.t \in StoreNames THEN
        IF o.n >= 0 /\ o.n < Len(refs) THEN
            IF o.n \in stack THEN {-1}
            ELSE references_used(refs[o.n + 1], refs, stack \cup {o.n})
        ELSE {}
    ELSE UNION {references_used(o.s[j], refs, stack) : j \in {k \in 1..Len(o.s) : IsWalked(o, k)}}

\* get_used_references
get_used_references(o, refs) ==
    LET used == references_used(o, refs, {}) IN
    IF -1 \in used THEN Panic("stack overflow in ReferenceCounter")
    ELSE [Ok(NullObj, 0, <<>>) EXCEPT !.pos = used]

\* Calls nested deeper than this are a recursion without end.
RecursionLimit == 40

\* The state of a ReferenceOptimizer pass with the object it has produced.
OptState(o, refs, removed) ==
    [st |-> "ok", e |-> "", obj |-> o, refs |-> refs, removed |-> removed]

OptPanic(e) == [st |-> "panic", e |-> e, obj |-> NullObj, refs |-> <<>>, removed |-> {}]

\* index - removed_references.iter().filter(|i| *i < index).count()
NewIndex(index, removed) == index - Cardinality({i \in removed : i < index})

RemoveAt(refs, i) == SubSeq(refs, 1, i) \o SubSeq(refs, i + 2, Len(refs))

RECURSIVE opt_visit(_, _, _, _, _), opt_children(_, _, _, _, _, _)

\* The walkers of ReferenceOptimizer: child j of o and the ones after it, in
\* order, each through transform.
opt_children(o, j, refs, removed, used, fuel) ==
    IF j > Len(o.s) THEN OptState(o, refs, removed)
    ELSE IF ~IsWalked(o, j) THEN opt_children(o, j + 1, refs, removed, used, fuel)
    ELSE LET r == opt_visit(o.s[j], refs, removed, used, fuel) IN
         IF r.st # "ok" THEN r
         ELSE opt_children([o EXCEPT !.s[j] = r.obj], j + 1, r.refs, r.removed, used, fuel)

\* Object::transform / ObjectHashable::transform with a ReferenceOptimizer
opt_visit(o, refs, removed, used, fuel) ==
    IF fuel = 0 THEN OptPanic("stack overflow in ReferenceOptimizer")
    ELSE IF o.t = "LoadRef" THEN
        \* visit_LoadRef
        OptState(IF \E i \in removed : i < o.n THEN LoadRef(NewIndex(o.n, removed)) ELSE o,
                 refs, removed)
    ELSE IF o.t = "StoreRef" THEN
        \* visit_StoreRef
        LET new_index == NewIndex(o.n, removed) IN
        IF o.n \notin used THEN
            IF new_index >= Len(refs) THEN OptPanic("unwrap on None in visit_StoreRef")
            ELSE opt_visit(refs[new_index + 1], RemoveAt(refs, new_index),
                           removed \cup {o.n}, used, fuel - 1)
        ELSE IF \E i \in removed : i < o.n THEN
            IF new_index >= Len(refs) THEN OptPanic("unwrap on None in visit_StoreRef")
            ELSE LET r == opt_visit(refs[new_index + 1], refs, removed, used, fuel - 1) IN
                 IF r.st # "ok" THEN r
                 ELSE IF new_index >= Len(r.refs)
                 THEN OptPanic("index out of bounds in visit_StoreRef")
                 ELSE OptState(StoreRef(new_index),
                               [r.refs EXCEPT ![new_index + 1] = r.obj], r.removed)
        ELSE OptState(o, refs, removed)
    ELSE IF o.t \in {"Code", "Dict", "FrozenSet", "Tuple", "Set", "List", "HTuple"} THEN
        opt_children(o, 1, refs, removed, used, fuel - 1)
    ELSE IF o.t = "HFrozenSet" THEN
        \* visit_HashableFrozenSet: the transformed elements, inserted into a
        \* new set
        LET r == opt_children(o, 1, refs, removed, used, fuel - 1) IN
        IF r.st # "ok" THEN r
        ELSE OptState([r.obj EXCEPT !.s = IndexSetFrom(r.obj.s, <<>>)], r.refs, r.removed)
    ELSE OptState(o, refs, removed)

\* optimize_references: the table returned is the optimizer's table after the
\* pass.
optimize_references(o, refs) ==
    LET usage_counter == get_used_references(o, refs) IN
    IF usage_counter.st # "ok" THEN usage_counter
    ELSE LET r == opt_visit(o, refs, {}, usage_counter.pos, RecursionLimit) IN
         IF r.st # "ok" THEN Panic(r.e) ELSE Ok(r.obj, 0, r.refs)


(***************************************************************************)
(* The resolver (resolver.rs).  RecursiveCheck and Resolver define the     *)
(* visitors of LoadRef and StoreRef only; the walk that brings them to the *)
(* children of a container is in the walker module, which is not part of   *)
(* the sources at hand: walk_children and resolve_children follow the      *)
(* depth-first walk of the specification, over the children the visitors   *)
(* of optimizer.rs walk.                                                   *)
(***************************************************************************)
InSeq(x, q) == \E i \in 1..Len(q) : q[i] = x

CheckState(rec) == [st |-> "ok", e |-> "", rec |-> rec]
CheckPanic(e) == [st |-> "panic", e |-> e, rec |-> <<>>]

RECURSIVE check_visit(_, _, _, _), walk_children(_, _, _, _, _)

\* The depth-first walk of a container under a RecursiveCheck.
walk_children(o, j, refs, ref_stack, rec) ==
    IF j > Len(o.s) THEN CheckState(rec)
    ELSE IF ~IsWalked(o, j) THEN walk_children(o, j + 1, refs, ref_stack, rec)
    ELSE LET r == check_visit(o.s[j], refs, ref_stack, rec) IN
         IF r.st # "ok" THEN r ELSE walk_children(o, j + 1, refs, ref_stack, r.rec)

\* RecursiveCheck: visit_LoadRef, visit_StoreRef and their Hashable twins
check_visit(o, refs, ref_stack, rec) ==
    IF o.t \in LoadNames THEN
        IF InSeq(o.n, ref_stack) THEN CheckState(Append(rec, o.n))
        ELSE IF o.n >= Len(refs) THEN CheckPanic("index out of bounds in RecursiveCheck")
        ELSE check_visit(refs[o.n + 1], refs, Append(ref_stack, o.n), rec)
    ELSE IF o.t \in StoreNames THEN
        IF InSeq(o.n, ref_stack) THEN CheckPanic("Recursive reference in StoreRef")
        ELSE IF o.n >= Len(refs) THEN CheckPanic("index out of bounds in RecursiveCheck")
        ELSE check_visit(refs[o.n + 1], refs, Append(ref_stack, o.n), rec)
    ELSE walk_children(o, 1, refs, ref_stack, rec)

\* A check that reports no reference as recursive.
get_recursive_refs_none(o, refs) == CheckState(<<>>)

\* get_recursive_refs
get_recursive_refs(o, refs) == check_visit(o, refs, <<>>, <<>>)

RECURSIVE resolve_visit(_, _, _, _), resolve_children(_, _, _, _, _)

\* The depth-first walk of a container under a Resolver.
resolve_children(o, j, refs, rec, fuel) ==
    IF j > Len(o.s) THEN Ok(o, 0, refs)
    ELSE IF ~IsWalked(o, j) THEN resolve_children(o, j + 1, refs, rec, fuel)
    ELSE LET r == resolve_visit(o.s[j], refs, rec, fuel) IN
         IF r.st # "ok" THEN r
         ELSE resolve_children([o EXCEPT !.s[j] = r.obj], j + 1, r.refs, rec, fuel)

\* Resolver: visit_LoadRef, visit_StoreRef and their Hashable twins
resolve_visit(o, refs, rec, fuel) ==
    IF fuel = 0 THEN Panic("stack overflow in Resolver")
    ELSE IF o.t = "LoadRef" THEN
        IF InSeq(o.n, rec) THEN Ok(o, 0, refs)
        ELSE IF o.n >= Len(refs) THEN Panic("index out of bounds in Resolver")
        ELSE Ok(refs[o.n + 1], 0, refs)
    ELSE IF o.t = "HLoadRef" THEN
        IF InSeq(o.n, rec) THEN Ok(o, 0, refs)
        ELSE IF o.n >= Len(refs) THEN Panic("index out of bounds in Resolver")
        ELSE LET h == from_ref(refs[o.n + 1], refs, {}) IN
             IF h.st = "panic" THEN h
             ELSE IF h.st = "ok" THEN Ok(h.obj, 0, refs)
             ELSE Ok(o, 0, refs)
    ELSE IF o.t \in StoreNames THEN
        IF InSeq(o.n, rec) THEN Ok(o, 0, refs)
        ELSE IF o.n >= Len(refs) THEN Panic("index out of bounds in Resolver")
        ELSE LET r == resolve_visit(refs[o.n + 1], refs, rec, fuel - 1) IN
             IF r.st # "ok" THEN r
             ELSE IF o.n >= Len(r.refs) THEN Panic("index out of bounds in Resolver")
             ELSE Ok(o, 0, [r.refs EXCEPT ![o.n + 1] = r.obj])
    ELSE resolve_children(o, 1, refs, rec, fuel - 1)

\* resolve_all_refs
resolve_all_refs(o, refs) ==
    LET opt == optimize_references(o, refs) IN
    IF opt.st # "ok" THEN opt
    ELSE LET recursive_refs == get_recursive_refs(opt.obj, opt.refs) IN
    IF recursive_refs.st # "ok" THEN Panic(recursive_refs.e)
    ELSE LET r == resolve_visit(opt.obj, opt.refs, recursive_refs.rec, RecursionLimit) IN
    IF r.st # "ok" THEN r
    ELSE optimize_references(r.obj, r.refs)


(***************************************************************************)
(* The graphs handed to optimize_references and resolve_all_refs: what     *)
(* load_bytes makes of byte strings of up to MaxGraphTokens chunks and of  *)
(* a few longer inputs, and graphs built by hand as the crate's tests do.  *)
(***************************************************************************)
MaxGraphTokens == 4

G_List2 == <<KindList, 2, 0, 0, 0>>
G_ListF2 == <<KindList + KindFlagRef, 2, 0, 0, 0>>
G_Ref1 == <<KindRef, 1, 0, 0, 0>>
G_FrozenSet1 == <<KindFrozenSet, 1, 0, 0, 0>>

GraphTokens == {G_List2, T_ListF, G_ListF2, T_StrF, T_Int, T_Ref0, G_Ref1, G_FrozenSet1}

GraphTokenStrings ==
    {Flatten(ts) : ts \in UNION {[1..n -> GraphTokens] : n \in 1..MaxGraphTokens}}

\* b"\xdb\x03\x00\x00\x00\xe9\x01\x00\x00\x00r\x01\x00\x00\x00r\x01\x00\x00\x00"
TestReferenceBytes ==
    <<KindList + KindFlagRef, 3, 0, 0, 0, KindInt + KindFlagRef, 1, 0, 0, 0>> \o G_Ref1 \o G_Ref1

ExtraGraphInputs ==
    {TestReferenceBytes, CodeBytes310(TRUE), CodeBytes311(TRUE),
     T_Dict \o T_Int \o T_StrF \o T_Int \o T_Ref0 \o T_Null,
     <<KindSmallTuple, 3>> \o T_StrF \o T_StrF \o G_FrozenSet1 \o G_Ref1,
     <<KindSmallTuple, 2>> \o T_ListF \o T_ListF \o T_Ref0 \o G_Ref1,
     <<KindSmallTuple, 2>> \o T_DictF \o T_Null \o T_Ref0}

\* The second graph of test_optimize_references and test_resolve_refs.
TestGraph ==
    <<StoreRef(0), <<PyList(<<StoreRef(1), LoadRef(1)>>), StoreRef(2), LongOf(1)>> >>

\* The graphs whose only slot references itself.
SelfLoad == <<LoadRef(0), <<LoadRef(0)>> >>
SelfLoadList == <<LoadRef(0), <<PyList(<<LoadRef(0)>>)>> >>
SelfStoreList == <<StoreRef(0), <<PyList(<<LoadRef(0)>>)>> >>

\* Graphs no load_bytes returns: a slot whose value stores the slot again,
\* directly and through a second slot, and placeholders whose index is not
\* below the table length.
MalformedGraphs ==
    {<<StoreRef(0), <<StoreRef(0)>> >>,
     <<StoreRef(0), <<PyList(<<StoreRef(0)>>)>> >>,
     <<PyTuple(<<StoreRef(0)>>), <<PyList(<<StoreRef(1)>>), PyTuple(<<PyNone, StoreRef(0)>>)>> >>,
     <<LoadRef(0), <<>> >>,
     <<StoreRef(1), <<PyNone>> >>,
     <<PyList(<<StoreRef(0), LoadRef(2)>>), <<PyNone, PyNone>> >>,
     <<StoreRef(0), <<PyTuple(<<StoreRef(3)>>)>> >>}

HandGraphs == {TestGraph, SelfLoad, SelfLoadList, SelfStoreList} \cup MalformedGraphs

InitGraph ==
    /\ \/ \E d \in GraphTokenStrings \cup ExtraGraphInputs :
             LET r == load_bytes(d, Py310) IN
             /\ r.st = "ok"
             /\ r.pos = Len(d)
             /\ data = d
             /\ object = r.obj
             /\ references = r.refs
       \/ \E g \in HandGraphs : data = <<>> /\ object = g[1] /\ references = g[2]
    /\ version = Py310
    /\ pc = "start"
    /\ marshal_version = 4
    /\ result = NoResult
    /\ dumped = NoResult
    /\ aux = NoResult
    /\ no_table = FALSE
    /\ writer = NoWriter

\* result = optimize_references(object, references)
Optimize ==
    /\ pc = "start"
    /\ result' = optimize_references(object, references)
    /\ pc' = "optimized"
    /\ UNCHANGED <<data, version, marshal_version, object, references, dumped, aux,
                   no_table, writer>>

\* aux = optimize_references(result)
OptimizeAgain ==
    /\ pc = "optimized"
    /\ result.st = "ok"
    /\ aux' = optimize_references(result.obj, result.refs)
    /\ pc' = "optimized_twice"
    /\ UNCHANGED <<data, version, marshal_version, object, references, dumped, result,
                   no_table, writer>>

\* result = resolve_all_refs(object, references)
Resolve ==
    /\ pc = "start"
    /\ result' = resolve_all_refs(object, references)
    /\ pc' = "resolved"
    /\ UNCHANGED <<data, version, marshal_version, object, references, dumped, aux,
                   no_table, writer>>

\* aux = get_recursive_refs(object, references)
CheckRecursive ==
    /\ pc = "start"
    /\ aux' = get_recursive_refs(object, references)
    /\ pc' = "checked"
    /\ UNCHANGED <<data, version, marshal_version, object, references, dumped, result,
                   no_table, writer>>

\* dumped = dump_bytes(root', Some(table'), version, marshal_version) of the
\* optimized graph of a loaded input, aux = load_bytes of those bytes
DumpOptimized ==
    /\ pc = "optimized"
    /\ data # <<>>
    /\ result.st = "ok"
    /\ dumped' = dump_bytes(result.obj, result.refs, FALSE, version, marshal_version)
    /\ aux' = IF dumped'.st = "ok" THEN load_bytes(dumped'.obj.b, version) ELSE NoResult
    /\ pc' = "reloaded"
    /\ UNCHANGED <<data, version, marshal_version, object, references, result,
                   no_table, writer>>

NextGraph == Optimize \/ OptimizeAgain \/ Resolve \/ CheckRecursive \/ DumpOptimized

SpecGraph == InitGraph /\ [][NextGraph]_vars

(***************************************************************************)
(* Properties of graphs.                                                   *)
(***************************************************************************)
\* Every placeholder index is a slot and every slot is the index of exactly
\* one StoreRef.
WellFormed(root, table) ==
    /\ \A i \in GraphIndices(root, table, AllRefNames) : i >= 0 /\ i < Len(table)
    /\ \A i \in 0..(Len(table) - 1) : GraphCount(root, table, StoreNames, i) = 1

\* The slots whose placeholders stand in the value of slot i.
SlotEdges(table, i) == RefIndices(table[i + 1], AllRefNames)

RECURSIVE SlotsReached(_, _, _)
SlotsReached(table, from, seen) ==
    LET next == (UNION {SlotEdges(table, i) : i \in from}) \ seen IN
    IF next = {} THEN seen ELSE SlotsReached(table, next, seen \cup next)

\* No slot is reached from its own value.
Acyclic(table) ==
    \A i \in 0..(Len(table) - 1) : i \notin SlotsReached(table, {i}, {})

Plain(t) == IF OName(t) = "Invalid" THEN t ELSE OName(t)

\* The value o denotes: every placeholder replaced by the value its slot
\* denotes (of an acyclic table), Object and ObjectHashable variants alike.
RECURSIVE Expand(_, _)
Expand(o, table) ==
    IF o.t \in AllRefNames THEN
        IF o.n >= 0 /\ o.n < Len(table) THEN Expand(table[o.n + 1], table)
        ELSE Obj("Dangling", o.n, <<>>, <<>>)
    ELSE [t |-> Plain(o.t), n |-> o.n, b |-> o.b,
          s |-> [j \in 1..Len(o.s) |-> Expand(o.s[j], table)]]


\* C3: after optimize_references on a well-formed graph the table holds
\* exactly the slots some LoadRef of the result targets, numbered 0..n-1, and
\* no StoreRef is left, at any depth, for a slot that no LoadRef targets.
C3_ExactlyLoadedSlots ==
    (pc = "optimized" /\ WellFormed(object, references)) =>
        /\ result.st = "ok"
        /\ GraphIndices(result.obj, result.refs, LoadNames) = 0..(Len(result.refs) - 1)
        /\ GraphIndices(result.obj, result.refs, StoreNames)
              \subseteq GraphIndices(result.obj, result.refs, LoadNames)

\* C4: on a well-formed graph without a reference cycle resolve_all_refs
\* succeeds, returns an empty table and a root without any placeholder, each
\* former placeholder holding the value it denoted.
C4_ResolveTotal ==
    (pc = "resolved" /\ WellFormed(object, references) /\ Acyclic(references)) =>
        /\ result.st = "ok"
        /\ result.refs = <<>>
        /\ RefIndices(result.obj, AllRefNames) = {}
        /\ Expand(result.obj, <<>>) = Expand(object, references)

SelfCycles == {SelfLoad, SelfLoadList, SelfStoreList}

\* C5 as stated: a graph whose only slot references itself comes out of
\* resolve_all_refs with one table entry, the root LoadRef(0), and the
\* self-referential LoadRef(0) still in place.
C5_RootIsLoadRef ==
    (pc = "resolved" /\ <<object, references>> \in SelfCycles) =>
        /\ result.st = "ok"
        /\ Len(result.refs) = 1
        /\ result.obj = LoadRef(0)
        /\ CountRef(result.refs[1], LoadNames, 0) = 1

\* C5, amended: a graph whose only slot references itself comes out of
\* resolve_all_refs unchanged: one table entry with the self-referential
\* LoadRef(0) still in it, and the root the placeholder it was, LoadRef(0)
\* or StoreRef(0).
C5_SelfCyclePreserved ==
    (pc = "resolved" /\ <<object, references>> \in SelfCycles) =>
        /\ result.st = "ok"
        /\ Len(result.refs) = 1
        /\ result.obj = object
        /\ result.refs = references
        /\ CountRef(result.refs[1], LoadNames, 0) = 1

\* resolve_all_refs has returned on the self-referential list.
C5_Witness ==
    /\ pc = "resolved"
    /\ <<object, references>> = SelfStoreList
    /\ result.st = "ok"

\* C6: optimize_references applied to its own result on a well-formed graph
\* returns that result unchanged.
C6_OptimizeIdempotent ==
    (pc = "optimized_twice" /\ WellFormed(object, references)) => aux = result

\* C7: on a well-formed graph without a reference cycle the result of
\* optimize_references denotes the value the input denoted.
C7_DenotationPreserved ==
    (pc = "optimized" /\ WellFormed(object, references) /\ Acyclic(references)) =>
        /\ result.st = "ok"
        /\ Expand(result.obj, result.refs) = Expand(object, references)


(***************************************************************************)
(* The writer, one w_object call at a time.  writer is the PyWriter: its   *)
(* data, marshal_version, references and depth fields, and in calls what   *)
(* the w_object calls now running still have to do, innermost first.       *)
(***************************************************************************)

\* What a running w_object call has to do: a nested self.w_object(o, is_ref)?,
\* bytes appended to self.data, an early return of an Err or an abort, the
\* self.depth -= 1 at the end of the call.
WCall(o, is_ref) == [op |-> "w_object", o |-> o, is_ref |-> is_ref, b |-> <<>>, r |-> NoResult]
WBytes(b) == [op |-> "extend", o |-> NullObj, is_ref |-> FALSE, b |-> b, r |-> NoResult]
WFail(r) == [op |-> "fail", o |-> NullObj, is_ref |-> FALSE, b |-> <<>>, r |-> r]
\* A call that returns without the decrement.
WReturnKeepDepth == [op |-> "extend", o |-> NullObj, is_ref |-> FALSE, b |-> <<>>, r |-> NoResult]

WReturn == [op |-> "return", o |-> NullObj, is_ref |-> FALSE, b |-> <<>>, r |-> NoResult]

\* for item in items { self.w_object(Some(item), false)? }
WCalls(items, hashable) ==
    [i \in 1..Len(items) |->
        WCall(IF hashable[i] THEN from_hashable(items[i]) ELSE items[i], FALSE)]

\* w_long of a header field of a code object after try_into::<i32>()
WInts(ints) ==
    Let(w_code_ints(ints), LAMBDA r : IF r.st = "ok" THEN WBytes(r.obj.b) ELSE WFail(r))

\* The match of w_object as the sequence of what the arm does.
w_match(o, is_ref, refs, mv) ==
    CASE o.t = "Tuple" ->
            <<WBytes(IF mv >= 4 /\ Len(o.s) <= 255
                     THEN w_kind(KindSmallTuple, is_ref) \o LE(Len(o.s), 1)
                     ELSE w_kind(KindTuple, is_ref) \o LE(Len(o.s), 4))>>
            \o WCalls(o.s, AllFalse(Len(o.s)))
      [] o.t = "List" ->
            <<WBytes(w_kind(KindList, is_ref) \o LE(Len(o.s), 4))>>
            \o WCalls(o.s, AllFalse(Len(o.s)))
      [] o.t = "Dict" ->
            <<WBytes(w_kind(KindDict, is_ref))>>
            \o WCalls(o.s, KeysTrue(Len(o.s)))
            \o <<WBytes(w_kind(KindNull, is_ref))>>
      [] o.t = "Set" ->
            <<WBytes(w_kind(KindSet, is_ref) \o LE(Len(o.s), 4))>>
            \o WCalls(o.s, AllTrue(Len(o.s)))
      [] o.t = "FrozenSet" ->
            <<WBytes(w_kind(KindFrozenSet, is_ref) \o LE(Len(o.s), 4))>>
            \o WCalls(o.s, AllTrue(Len(o.s)))
      [] o.t = "Code" ->
            <<WBytes(w_kind(KindCode, is_ref)), WInts(SubSeq(o.b, 1, Len(o.b) - 1))>>
            \o WCalls(SubSeq(o.s, 1, 8), AllFalse(8))
            \o <<WInts(<<o.b[Len(o.b)]>>)>>
            \o WCalls(SubSeq(o.s, 9, Len(o.s)), AllFalse(Len(o.s) - 8))
      [] o.t = "StoreRef" ->
            IF o.n >= 0 /\ o.n < Len(refs)
            THEN <<WCall(refs[o.n + 1], TRUE)>>
            ELSE <<WFail(Err("InvalidReference"))>>
      [] OTHER ->
            Let(w_payload(o, is_ref, 0, refs, mv),
                LAMBDA r : IF r.st = "ok" THEN <<WBytes(r.obj.b)>> ELSE <<WFail(r)>>)

\* PyWriter::new followed by the call write_object makes
PyWriter_new(o, refs, mv) ==
    [data |-> <<>>, marshal_version |-> mv, references |-> refs, depth |-> 0,
     calls |-> <<WCall(o, FALSE)>>]

\* The values and tables handed to dump_bytes, references == None included.
Chain(k) == [i \in 1..k |-> IF i = k THEN PyNone ELSE StoreRef(i)]

Nones(k) == [i \in 1..k |-> PyNone]

Bytes_a(k) == [i \in 1..k |-> 97]

RefCalls ==
    LET roots == {LoadRef(0), LoadRef(1), StoreRef(0), StoreRef(1),
                  PyList(<<StoreRef(0), LoadRef(0)>>),
                  PyTuple(<<PyNone, LoadRef(1)>>),
                  PyDict(<<Obj("HNone", 0, <<>>, <<>>), LoadRef(0)>>),
                  PyDict(<<HLoadRef(1), PyNone>>),
                  PySet(<<HLoadRef(0)>>),
                  PyFrozenSet(<<HStoreRef(1)>>)}
    IN (roots \X {<<>>, <<PyNone>>, <<PyList(<<LoadRef(1)>>)>>} \X BOOLEAN)
       \cup {<<LoadRef(299), Nones(300), FALSE>>, <<LoadRef(300), Nones(300), FALSE>>,
             <<PyList(<<LoadRef(258)>>), Nones(300), FALSE>>}

DepthCalls ==
    {<<StoreRef(0), <<StoreRef(0)>>, FALSE>>,
     <<PyList(<<PyNone, StoreRef(1)>>), <<StoreRef(1), StoreRef(0)>>, FALSE>>,
     <<StoreRef(0), Chain(MAX_DEPTH - 1), FALSE>>,
     <<StoreRef(0), Chain(MAX_DEPTH), FALSE>>,
     <<PyTuple(<<StoreRef(0)>>), Chain(MAX_DEPTH - 1), FALSE>>,
     <<PyTuple(<<StoreRef(0)>>), Chain(MAX_DEPTH - 2), FALSE>>}

LongCalls ==
    {<<PyLong(sg, ds), <<>>, FALSE>> :
        sg \in {1, -1},
        ds \in {<<1>>, <<32767>>, <<0, 1>>, <<32767, 32767>>, <<0, 0, 1>>,
                <<32767, 32767, 1>>, <<0, 0, 2>>, <<1, 0, 2>>, <<32767, 32767, 3>>,
                <<0, 0, 0, 1>>, <<5, 0, 0, 0, 7>>}}
    \cup {<<PyLong(0, <<>>), <<>>, FALSE>>}

StringCalls ==
    {<<PyString(Bytes_a(k), kind), <<>>, FALSE>> :
        k \in {0, 1, 2, 255, 256, 300},
        kind \in {KindASCII, KindASCIIInterned, KindInterned, KindUnicode,
                  KindShortAscii, KindShortAsciiInterned}}

\* A root StoreRef(0) over a one-entry table, for a table value of each shape.
StoreCalls ==
    {<<StoreRef(0), <<x>>, FALSE>> :
        x \in {PyNone, PyBool(TRUE), PyLong(1, <<1>>), PyString(<<97>>, KindShortAscii),
               PyTuple(<<PyNone>>), PyList(<<PyNone, LoadRef(0)>>), PyDict(<<>>),
               PyDict(<<Obj("HNone", 0, <<>>, <<>>), PyNone>>),
               PyList(<<PyDict(<<>>)>>), PySet(<<>>), PyFrozenSet(<<>>), LoadRef(0)}}

WriteCalls == RefCalls \cup DepthCalls \cup LongCalls \cup StringCalls \cup StoreCalls

InitWrite ==
    /\ \E c \in WriteCalls : object = c[1] /\ references = c[2] /\ no_table = c[3]
    /\ version \in {Py27, Py310}
    /\ marshal_version \in MarshalVersions
    /\ pc = "start"
    /\ data = <<>>
    /\ result = NoResult
    /\ dumped = NoResult
    /\ aux = NoResult
    /\ writer = NoWriter

\* dump_bytes up to the call of write_object
DumpBegin ==
    /\ pc = "start"
    /\ IF VersionLess(version, 3, 0)
       THEN /\ dumped' = Err("UnsupportedPyVersion")
            /\ pc' = "done"
            /\ UNCHANGED writer
       ELSE /\ writer' = PyWriter_new(object, IF no_table THEN <<>> ELSE references,
                                      marshal_version)
            /\ pc' = "writing"
            /\ UNCHANGED dumped
    /\ UNCHANGED <<data, version, marshal_version, object, references, result, aux, no_table>>

\* Entry of a w_object call: the depth check, then the arm of the match.
WObject ==
    /\ pc = "writing"
    /\ writer.calls # <<>>
    /\ Head(writer.calls).op = "w_object"
    /\ IF writer.depth + 1 > MAX_DEPTH
       THEN /\ writer' = [writer EXCEPT !.depth = @ + 1, !.calls = <<>>]
            /\ dumped' = Err("DepthLimitExceeded")
            /\ pc' = "done"
       ELSE /\ writer' = [writer EXCEPT
                !.depth = @ + 1,
                !.calls = w_match(Head(@).o, Head(@).is_ref, writer.references,
                                  writer.marshal_version)
                          \o <<WReturn>> \o Tail(@)]
            /\ UNCHANGED <<dumped, pc>>
    /\ UNCHANGED <<data, version, marshal_version, object, references, result, aux, no_table>>

\* self.data.extend(..)
WExtend ==
    /\ pc = "writing"
    /\ writer.calls # <<>>
    /\ Head(writer.calls).op = "extend"
    /\ writer' = [writer EXCEPT !.data = @ \o Head(writer.calls).b, !.calls = Tail(@)]
    /\ UNCHANGED <<pc, data, version, marshal_version, object, references, result, dumped,
                   aux, no_table>>

\* An Err returned through every running call by `?`, or an abort.
WFailed ==
    /\ pc = "writing"
    /\ writer.calls # <<>>
    /\ Head(writer.calls).op = "fail"
    /\ dumped' = Head(writer.calls).r
    /\ writer' = [writer EXCEPT !.calls = <<>>]
    /\ pc' = "done"
    /\ UNCHANGED <<data, version, marshal_version, object, references, result, aux, no_table>>

\* self.depth -= 1; Ok(())
WObjectReturn ==
    /\ pc = "writing"
    /\ writer.calls # <<>>
    /\ Head(writer.calls).op = "return"
    /\ writer' = [writer EXCEPT !.depth = @ - 1, !.calls = Tail(@)]
    /\ UNCHANGED <<pc, data, version, marshal_version, object, references, result, dumped,
                   aux, no_table>>

\* Ok(self.data.clone()) of write_object, returned by dump_bytes
DumpEnd ==
    /\ pc = "writing"
    /\ writer.calls = <<>>
    /\ dumped' = Ok(PyBytes(writer.data), writer.depth, <<>>)
    /\ pc' = "done"
    /\ UNCHANGED <<data, version, marshal_version, object, references, result, aux,
                   no_table, writer>>

\* load_bytes of the bytes dump_bytes returned
ReadBack ==
    /\ pc = "done"
    /\ dumped.st = "ok"
    /\ result' = load_bytes(dumped.obj.b, version)
    /\ pc' = "read_back"
    /\ UNCHANGED <<data, version, marshal_version, object, references, dumped, aux,
                   no_table, writer>>

NextWrite ==
    DumpBegin \/ WObject \/ WExtend \/ WFailed \/ WObjectReturn \/ DumpEnd \/ ReadBack

SpecWrite == InitWrite /\ [][NextWrite]_vars

\* The stepwise writer returns what write_object returns on every value whose
\* nesting the recursive definition can follow.
StepwiseAgrees ==
    (pc = "done" /\ <<object, references, no_table>> \notin DepthCalls) =>
        dumped = dump_bytes(object, references, no_table, version, marshal_version)

(***************************************************************************)
(* Properties of the writer.                                               *)
(***************************************************************************)
\* The length of the table the writer looks placeholders up in.
TableLen == IF no_table THEN 0 ELSE Len(references)

\* C11: dump_bytes writes a root LoadRef(i) with i below the table length as
\* the back-reference tag and i in four little-endian bytes, and returns the
\* invalid-reference error whenever the value contains a LoadRef or a
\* StoreRef whose index is not below the table length, no table given
\* included.
C11_WriterReferenceLookup ==
    (pc = "done" /\ ~VersionLess(version, 3, 0)) =>
        /\ (object.t = "LoadRef" /\ object.n < TableLen) =>
               dumped = Ok(PyBytes(<<KindRef>> \o LE(object.n, 4)), 0, <<>>)
        /\ (\E i \in RefIndices(object, LoadNames \cup StoreNames) : i >= TableLen) =>
               (dumped.st = "err" /\ dumped.e = "InvalidReference")

\* The number of w_object calls now running.
Nesting == Cardinality({i \in 1..Len(writer.calls) : writer.calls[i].op = "return"})

\* The longest chain of nested w_object calls dump_bytes would make on a root
\* StoreRef(0), bare or inside a tuple, over the table Chain(k): one per table
\* entry, one for the root, one for the tuple.
ChainCalls == Len(references) + (IF object.t = "Tuple" THEN 2 ELSE 1)

IsChainCall == references \in {Chain(MAX_DEPTH - 2), Chain(MAX_DEPTH - 1), Chain(MAX_DEPTH)}

\* The table entries form a StoreRef cycle that the root enters.
IsCycleCall ==
    <<object, references>> \in {<<StoreRef(0), <<StoreRef(0)>>>>,
                                <<PyList(<<PyNone, StoreRef(1)>>), <<StoreRef(1), StoreRef(0)>>>>}

MagLeq(a, b) ==
    \/ Len(a) < Len(b)
    \/ /\ Len(a) = Len(b)
       /\ \/ a = b
          \/ \E k \in 1..Len(a) : a[k] < b[k] /\ \A j \in (k + 1)..Len(a) : a[j] = b[j]

\* -2^31 <= n <= 2^31 - 1
FitsI32(o) == IF o.n < 0 THEN MagLeq(o.b, <<0, 0, 2>>) ELSE MagLeq(o.b, <<32767, 32767, 1>>)

\* C13: dump_bytes writes an integer n with -2^31 <= n <= 2^31-1 as the
\* small-int tag and the four little-endian bytes of its two's complement,
\* and any other n as the arbitrary-precision tag, the digit count carrying
\* the sign of n, and the 15-bit digits of |n| from the least significant, the
\* last of them not zero; load_bytes of the bytes written returns n.
C13_NumericBoundary ==
    (object.t = "Long" /\ pc \in {"done", "read_back"} /\ ~VersionLess(version, 3, 0)) =>
        /\ dumped.st = "ok"
        /\ IF FitsI32(object)
           THEN /\ Len(dumped.obj.b) = 5
                /\ dumped.obj.b[1] = KindInt
                /\ LongFromSignedBytes(SubSeq(dumped.obj.b, 2, 5)) = object
           ELSE /\ Len(dumped.obj.b) = 5 + 2 * Len(object.b)
                /\ dumped.obj.b[1] = KindLong
                /\ FromLE32(dumped.obj.b, 1) =
                      (IF object.n < 0 THEN -Len(object.b) ELSE Len(object.b))
                /\ \A j \in 1..Len(object.b) :
                      FromLE(dumped.obj.b, 5 + 2 * (j - 1), 2) = object.b[j]
                /\ object.b[Len(object.b)] # 0
        /\ pc = "read_back" =>
              /\ result.st = "ok"
              /\ result.obj = object
              /\ result.pos = Len(dumped.obj.b)

\* -2^31 - 1, 2^31 and -2^31 have been written and read back.
C13_Witness ==
    /\ pc = "read_back"
    /\ object = PyLong(-1, <<1, 0, 2>>)
    /\ dumped.obj.b = <<KindLong, 253, 255, 255, 255, 1, 0, 0, 0, 2, 0>>
    /\ result.obj = object

\* C14: dump_bytes writes a text string as the tag of its recorded kind, the
\* byte length of the payload in one byte for the two short kinds and in four
\* little-endian bytes for the others, then the payload; load_bytes of the
\* bytes written returns the same bytes with the same kind, and
\* optimize_references and resolve_all_refs return the string as it was.
C14_StringEncoding ==
    (object.t = "String" /\ pc \in {"done", "read_back"} /\ ~VersionLess(version, 3, 0)) =>
        /\ dumped.st = "ok"
        /\ dumped.obj.b[1] = object.n
        /\ IF object.n \in {KindShortAscii, KindShortAsciiInterned}
           THEN /\ Len(dumped.obj.b) = 2 + Len(object.b)
                /\ FromLE(dumped.obj.b, 1, 1) = Len(object.b)
                /\ SubSeqFrom(dumped.obj.b, 2, Len(object.b)) = object.b
           ELSE /\ Len(dumped.obj.b) = 5 + Len(object.b)
                /\ FromLE32(dumped.obj.b, 1) = Len(object.b)
                /\ SubSeqFrom(dumped.obj.b, 5, Len(object.b)) = object.b
        /\ pc = "read_back" => (result.st = "ok" /\ result.obj = object)
        /\ optimize_references(object, <<>>).obj = object
        /\ resolve_all_refs(object, <<>>).obj = object


(***************************************************************************)
(* The conversions between Object and ObjectHashable, applied to values    *)
(* built by hand: every leaf, every tuple of up to MaxTupleLen leaves and  *)
(* the tuples of a one-element tuple.                                      *)
(***************************************************************************)
MaxTupleLen == 2

CodeValue == load_bytes(CodeBytes310(FALSE), Py310).obj

HashLeaves ==
    {PyNone, PyStopIteration, PyEllipsis, PyBool(TRUE), PyBool(FALSE),
     PyLong(1, <<5>>), PyLong(-1, <<0, 0, 2>>), PyFloat(F64_One),
     PyComplex(F64_One \o F64_Half), PyBytes(<<1, 2>>),
     PyString(<<110>>, KindShortAscii), PyString(<<110>>, KindUnicode),
     LoadRef(0), StoreRef(0), CodeValue,
     PyList(<<>>), PyList(<<PyNone>>), PyDict(<<>>), PySet(<<>>),
     PySet(<<Obj("HNone", 0, <<>>, <<>>)>>),
     PyFrozenSet(<<>>), PyFrozenSet(<<Obj("HNone", 0, <<>>, <<>>), HLoadRef(0)>>)}

HashValues ==
    HashLeaves
    \cup {PyTuple(t) : t \in UNION {[1..n -> HashLeaves] : n \in 0..MaxTupleLen}}
    \cup {PyTuple(<<PyTuple(<<v>>)>>) : v \in HashLeaves}

InitHash ==
    /\ object \in HashValues
    /\ pc = "start"
    /\ data = <<>>
    /\ version = Py310
    /\ marshal_version = 4
    /\ references = <<>>
    /\ result = NoResult
    /\ dumped = NoResult
    /\ aux = NoResult
    /\ no_table = FALSE
    /\ writer = NoWriter

\* result = ObjectHashable::try_from(object)
TryFromObject ==
    /\ pc = "start"
    /\ result' = try_from(object)
    /\ pc' = "hashable"
    /\ UNCHANGED <<data, version, marshal_version, object, references, dumped, aux,
                   no_table, writer>>

\* aux = Object::from(hashable) of the hashable try_from returned
FromHashable ==
    /\ pc = "hashable"
    /\ result.st = "ok"
    /\ aux' = Ok(from_hashable(result.obj), 0, <<>>)
    /\ pc' = "object"
    /\ UNCHANGED <<data, version, marshal_version, object, references, result, dumped,
                   no_table, writer>>

\* aux = ObjectHashable::from_ref(object, &references)
FromRefObject ==
    /\ pc = "start"
    /\ aux' = from_ref(object, references, {})
    /\ pc' = "hashable_ref"
    /\ UNCHANGED <<data, version, marshal_version, object, references, result, dumped,
                   no_table, writer>>

\* The bytes of a set or a frozenset with the one element e, and of a dict
\* with the one key e.
KeyBytes(e) ==
    {<<KindSet>> \o LE(1, 4) \o e, <<KindFrozenSet>> \o LE(1, 4) \o e,
     <<KindDict>> \o e \o <<KindNone, KindNull>>}

\* dumped = load_bytes(data, version) for data a set, a frozenset or a dict
\* that holds the bytes of object as its element or key
LoadAsKey ==
    /\ pc = "start"
    /\ dump_bytes(object, <<>>, TRUE, version, marshal_version).st = "ok"
    /\ data' \in KeyBytes(dump_bytes(object, <<>>, TRUE, version, marshal_version).obj.b)
    /\ dumped' = load_bytes(data', version)
    /\ pc' = "key_loaded"
    /\ UNCHANGED <<version, marshal_version, object, references, result, aux,
                   no_table, writer>>

NextHash == TryFromObject \/ FromHashable \/ FromRefObject \/ LoadAsKey

SpecHash == InitHash /\ [][NextHash]_vars

\* Neither a list, dict or set nor a tuple with such a value inside.
RECURSIVE Projectable(_)
Projectable(v) ==
    IF v.t = "Tuple" THEN \A i \in 1..Len(v.s) : Projectable(v.s[i])
    ELSE v.t \notin {"List", "Dict", "Set"}

\* C15: try_from followed by Object::from gives back every value that is an
\* atom, a number, a byte or text string, a code object, a LoadRef, a
\* StoreRef, a frozenset or a tuple of such values; try_from returns an error
\* on a list, a dict and a set.
C15_HashableProjection ==
    /\ (pc \in {"hashable", "object"} /\ object.t \in {"List", "Dict", "Set"}) =>
          result.st = "err"
    /\ (pc \in {"hashable", "object"} /\ Projectable(object)) => result.st = "ok"
    /\ (pc = "object" /\ Projectable(object)) => aux.obj = object


(***************************************************************************)
(* The version table looked up both ways: from a magic number to its       *)
(* version and back, and from a version, patch field included, to its      *)
(* magic number.                                                           *)
(***************************************************************************)
\* impl From<(u8, u8, u8)> for PyVersion
PyVersionPatch(major, minor, patch) == [major |-> major, minor |-> minor, patch |-> patch]

TableMagics == {MAGIC_NUMBERS[i][1] : i \in 1..Len(MAGIC_NUMBERS)}

MagicInputs ==
    TableMagics \cup {Magic(3000), Magic(3440), Magic(3572), <<0, 0, 0, 0>>,
                      <<111, 13, 13, 10>>, <<111, 13, 10, 13>>}

VersionInputs ==
    {PyVersionPatch(major, minor, patch) :
        major \in {2, 3}, minor \in 0..14, patch \in {0, 1}}

InitMagic ==
    /\ \/ data \in MagicInputs /\ version = PyVersion(0, 0)
       \/ data = <<>> /\ version \in VersionInputs
    /\ pc = "start"
    /\ marshal_version = 0
    /\ object = NullObj
    /\ references = <<>>
    /\ result = NoResult
    /\ dumped = NoResult
    /\ aux = NoResult
    /\ no_table = FALSE
    /\ writer = NoWriter

\* version = PyVersion::from_magic(data)?
FromMagic ==
    /\ pc = "start"
    /\ data # <<>>
    /\ result' = from_magic(data)
    /\ version' = IF result'.st = "ok" THEN result'.obj ELSE version
    /\ pc' = "version_found"
    /\ UNCHANGED <<data, marshal_version, object, references, dumped, aux, no_table, writer>>

\* version.to_magic(), of a version given or of the one from_magic returned
ToMagic ==
    /\ \/ pc = "start" /\ data = <<>>
       \/ pc = "version_found" /\ result.st = "ok"
    /\ aux' = to_magic(version)
    /\ pc' = "magic_found"
    /\ UNCHANGED <<data, version, marshal_version, object, references, result, dumped,
                   no_table, writer>>

NextMagic == FromMagic \/ ToMagic

SpecMagic == InitMagic /\ [][NextMagic]_vars

\* The table entries with the (major, minor) of version.
EntriesOfVersion ==
    {i \in 1..Len(MAGIC_NUMBERS) :
        /\ MAGIC_NUMBERS[i][2].major = version.major
        /\ MAGIC_NUMBERS[i][2].minor = version.minor}

\* C16: from_magic followed by to_magic gives back every magic number of the
\* table; to_magic of a version whose (major, minor) is in the table returns
\* that entry's magic number whatever the patch field is, and from_magic of it
\* has the same (major, minor); a magic number or a (major, minor) that is
\* not in the table gives UnsupportedMagicNumber or UnsupportedPyVersion.
C16_TableBijection ==
    /\ pc = "version_found" =>
          IF data \in TableMagics THEN result.st = "ok"
          ELSE result.st = "err" /\ result.e = "UnsupportedMagicNumber"
    /\ (pc = "magic_found" /\ data # <<>>) => (aux.st = "ok" /\ aux.obj.b = data)
    /\ (pc = "magic_found" /\ data = <<>>) =>
          IF EntriesOfVersion = {}
          THEN aux.st = "err" /\ aux.e = "UnsupportedPyVersion"
          ELSE /\ aux.st = "ok"
               /\ \E i \in EntriesOfVersion : aux.obj.b = MAGIC_NUMBERS[i][1]
               /\ from_magic(aux.obj.b).obj.major = version.major
               /\ from_magic(aux.obj.b).obj.minor = version.minor


(***************************************************************************)
(* Properties of the .pyc framing.                                         *)
(***************************************************************************)
\* The version the magic number of data declares.
DeclaredVersion == from_magic(SubSeq(data, 1, 4))

DeclaredNew == ~VersionLess(DeclaredVersion.obj, 3, 7)

\* The header layout by version: the length of the hash and the offset of the
\* first byte after it.
HashLen == IF DeclaredNew THEN 8 ELSE 4

PayloadOffset == IF DeclaredNew THEN 16 ELSE 8

\* C17: load_pyc reads the magic number, a 4-byte timestamp only from 3.7 on,
\* then a hash of 8 bytes from 3.7 on and of 4 bytes below, and gives the
\* reader the bytes right after the hash (offset 16 from 3.7 on, offset 8
\* below); dump_pyc writes the same layout.
C17_HeaderLayout ==
    (/\ pc \in {"pyc_loaded", "pyc_dumped"}
     /\ Len(data) >= 16
     /\ DeclaredVersion.st = "ok") =>
        /\ aux.st = load_bytes(SubSeq(data, PayloadOffset + 1, Len(data)),
                               DeclaredVersion.obj).st
        /\ aux.st = "ok" =>
              /\ aux.obj.python_version = DeclaredVersion.obj
              /\ aux.obj.has_timestamp = DeclaredNew
              /\ DeclaredNew => aux.obj.timestamp = SubSeq(data, 5, 8)
              /\ aux.obj.hash = SubSeq(data, PayloadOffset - HashLen + 1, PayloadOffset)
              /\ aux.obj.object =
                    load_bytes(SubSeq(data, PayloadOffset + 1, Len(data)),
                               DeclaredVersion.obj).obj
        /\ (pc = "pyc_dumped" /\ dumped.st = "ok") =>
              /\ SubSeq(dumped.obj.b, 1, PayloadOffset)
                    = SubSeq(data, 1, 4)
                      \o (IF DeclaredNew THEN aux.obj.timestamp ELSE <<>>)
                      \o aux.obj.hash
              /\ SubSeq(dumped.obj.b, PayloadOffset + 1, Len(dumped.obj.b))
                    = write_object(aux.obj.object, aux.obj.references, 4).obj.b

\* C18: on an input shorter than the 4 bytes of the magic number, or shorter
\* than the timestamp and hash region of the version its magic number
\* declares, load_pyc returns the missing magic number, timestamp or hash
\* error; it neither aborts nor returns a PycFile.
C18_FramingErrors ==
    (/\ pc = "pyc_loaded"
     /\ \/ Len(data) < 4
        \/ DeclaredVersion.st = "ok" /\ Len(data) < PayloadOffset) =>
        /\ aux.st = "err"
        /\ aux.e \in {"NoMagicNumber", "NoTimeStamp", "NoHash"}


(***************************************************************************)
(* Properties of the optimizer and the resolver on graphs.                 *)
(***************************************************************************)
\* Every placeholder index of the root and of the table is a slot.
InRange(root, table) ==
    \A i \in GraphIndices(root, table, AllRefNames) : i >= 0 /\ i < Len(table)

\* C19: when every placeholder index of the input is below the table length,
\* optimize_references returns a graph in which every LoadRef and StoreRef,
\* those in sets, frozensets, dict keys and table values included, has an
\* index below the new table length, and in which every slot the root loads,
\* from a set element or a dict key as well, is still there.
C19_OptimizeKeepsWellFormed ==
    (pc = "optimized" /\ InRange(object, references)) =>
        /\ result.st = "ok"
        /\ InRange(result.obj, result.refs)
        /\ Cardinality(RefIndices(object, LoadNames)) <= Len(result.refs)

\* The slots met when the root is expanded.
RootSlots(root, table) ==
    SlotsReached(table, RefIndices(root, AllRefNames), RefIndices(root, AllRefNames))

\* Slot i lies on a load cycle: a load of i stands in the value of slot i or
\* of a slot reached from it.
OnLoadCycle(table, i) ==
    \E k \in {i} \cup SlotsReached(table, {i}, {}) :
        i \in RefIndices(table[k + 1], LoadNames)

\* C20: on a well-formed graph get_recursive_refs returns exactly the indices
\* of the slots met from the root that lie on a load cycle; after
\* resolve_all_refs every placeholder left in the root or the table has the
\* index of a slot on a load cycle, and on a graph without a cycle none is
\* left.
C20_RecursiveExact ==
    /\ (pc = "checked" /\ WellFormed(object, references)) =>
          /\ aux.st = "ok"
          /\ SeqRange(aux.rec)
                = {i \in RootSlots(object, references) : OnLoadCycle(references, i)}
    /\ (pc = "resolved" /\ WellFormed(object, references)) =>
          /\ result.st = "ok"
          /\ \A i \in GraphIndices(result.obj, result.refs, AllRefNames) :
                i >= 0 /\ i < Len(result.refs) /\ OnLoadCycle(result.refs, i)
          /\ Acyclic(references) =>
                GraphIndices(result.obj, result.refs, AllRefNames) = {}

(***************************************************************************)
(* Properties of the reader's slot bookkeeping.                            *)
(***************************************************************************)
\* The leading tag of the input carries the ref flag.
RootFlag == data # <<>> /\ data[1] >= KindFlagRef

\* The kind of the leading tag.
RootKind == data[1] % KindFlagRef

\* The payload of the leading tag, decoded after one slot was reserved.
RootPayload == r_payload(data, version, RootKind, FALSE, 1, <<PyNone>>)

\* C21: when the leading tag is a tuple, small-tuple, list, dict, set,
\* frozenset or code-unit tag with the ref flag and its payload decodes,
\* load_bytes returns StoreRef(0), slot 0 of the table holds the decoded
\* value, no other slot was created for it, and a child back-reference to
\* slot 0 was accepted as LoadRef(0).
C21_SlotReservation ==
    (/\ pc = "loaded"
     /\ RootFlag
     /\ RootKind \in ReservedKinds
     /\ ~VersionLess(version, 3, 0)
     /\ RootPayload.st = "ok") =>
        /\ result.st = "ok"
        /\ result.obj = StoreRef(0)
        /\ result.refs = [RootPayload.refs EXCEPT ![1] = RootPayload.obj]

\* The kinds that never get a slot.
NoSlotKinds ==
    {KindNone, KindTrue, KindFalse, KindStopIteration, KindEllipsis, KindRef}

\* The input with the ref flag of the tag at byte i cleared.
Unflagged(d, i) == [d EXCEPT ![i] = d[i] - KindFlagRef]

\* The position of a flagged tag that never gets a slot: the leading tag, or
\* a back-reference tag that ends the input; 0 when there is none.
FlaggedTag ==
    IF RootFlag /\ RootKind \in NoSlotKinds \ {KindRef} THEN 1
    ELSE IF Len(data) > 5 /\ data[Len(data) - 4] = KindRef + KindFlagRef
    THEN Len(data) - 4
    ELSE 0

\* C22: decoding a none, true, false, stop, ellipsis or back-reference tag
\* that carries the ref flag succeeds and gives the value, the position and
\* the reference table that the same input gives with the flag cleared.
C22_FlagIgnored ==
    (pc = "loaded" /\ FlaggedTag > 0 /\ ~VersionLess(version, 3, 0)) =>
        /\ result.st = "ok"
        /\ result = load_bytes(Unflagged(data, FlaggedTag), version)


(***************************************************************************)
(* Properties of the bytes written for placeholders and for the            *)
(* zero-payload kinds.                                                     *)
(***************************************************************************)
\* kind | FlagRef on a tag byte
SetFlag(bytes) ==
    [bytes EXCEPT ![1] = IF @ >= KindFlagRef THEN @ ELSE @ + KindFlagRef]

\* What dump_bytes writes for the table value the root StoreRef names.
InlineBytes ==
    dump_bytes(references[object.n + 1], references, no_table, version, marshal_version)

\* C23: for a root StoreRef(i) with i a slot of the table, dump_bytes writes
\* the bytes it writes for the table value table[i] itself, with bit 7 of
\* the first byte set and no other byte changed; the null tag that ends a
\* dict is the plain null tag.
C23_StoreRefFlagsTagOnly ==
    (/\ pc = "done"
     /\ object.t = "StoreRef"
     /\ object.n < TableLen
     /\ <<object, references, no_table>> \notin DepthCalls
     /\ ~VersionLess(version, 3, 0)
     /\ InlineBytes.st = "ok") =>
        /\ dumped.st = "ok"
        /\ dumped.obj.b = SetFlag(InlineBytes.obj.b)

\* C24: load_bytes on the single stop tag byte returns the stop-marker and
\* consumes that byte only, dump_bytes of the stop-marker writes that single
\* tag byte, and loading what was dumped gives the stop-marker back.
C24_StopMarker ==
    (pc = "loaded" /\ data = <<KindStopIteration>> /\ ~VersionLess(version, 3, 0)) =>
        /\ result = Ok(PyStopIteration, 1, <<>>)
        /\ \A mv \in MarshalVersions :
              /\ dump_bytes(PyStopIteration, <<>>, TRUE, version, mv)
                    = Ok(PyBytes(data), 0, <<>>)
              /\ load_bytes(dump_bytes(PyStopIteration, <<>>, TRUE, version, mv).obj.b,
                            version).obj = PyStopIteration


(***************************************************************************)
(* Properties of the arbitrary-precision integers the reader decodes.      *)
(***************************************************************************)
\* n = r_long() of a Kind::Long input.
LongCount == r_int(data, 1, 4, TRUE).obj.n

\* size = n.wrapping_abs()
LongSize == IF LongCount < 0 THEN -LongCount ELSE LongCount

\* The r_u16() values of the size digits, least significant first.
LongRaw == [i \in 1..LongSize |-> FromLE(data, 3 + 2 * i, 2)]

\* The input is a long tag, a count and as many 16-bit digits as it says.
IsLongInput ==
    /\ Len(data) >= 5
    /\ data[1] = KindLong
    /\ Len(data) = 5 + 2 * LongSize
    /\ ~VersionLess(version, 3, 0)

\* C25: a long with a digit of 2^15 or more makes load_bytes fail with
\* DigitOutOfRange; with every digit in 0..32767 the decoded magnitude is
\* the sum of digit_i * 2^(15 i), and the sign is that of the count, a count
\* of 0 giving 0.
C25_DigitRange ==
    (pc = "loaded" /\ IsLongInput) =>
        IF \E i \in 1..LongSize : LongRaw[i] >= Pow2(15)
        THEN result = Err("DigitOutOfRange")
        ELSE result = Ok(PyLong(IF Normalize(LongRaw) = <<>> THEN 0
                                ELSE IF LongCount < 0 THEN -1 ELSE 1,
                                Normalize(LongRaw)),
                         Len(data), <<>>)

\* C26: a long whose count is not zero and whose last digit is 0 makes
\* load_bytes fail with UnnormalizedLong, and no other long input that is
\* accepted decodes to the integer this one decodes to.
C26_UnnormalizedLong ==
    (pc = "loaded" /\ IsLongInput) =>
        /\ (LongSize > 0 /\ LongRaw[LongSize] = 0) =>
               result = Err("UnnormalizedLong")
        /\ result.st = "ok" =>
               \A d \in LongInputs \ {data} :
                   load_bytes(d, version).st = "ok" =>
                       load_bytes(d, version).obj # result.obj


(***************************************************************************)
(* Unhashable values met by the conversions and by the reader.             *)
(***************************************************************************)
\* A tuple that holds a list, a dict or a set at some depth.
UnhashableTuple(v) == v.t = "Tuple" /\ ~Projectable(v)

\* C27: for a tuple that holds a list, a dict or a set at any depth,
\* ObjectHashable::try_from and ObjectHashable::from_ref return an error, and
\* load_bytes returns an error for a dict whose key, and for a set or a
\* frozenset whose element, is such a tuple.
C27_UnhashableRejected ==
    /\ (pc = "hashable" /\ UnhashableTuple(object)) => result.st = "err"
    /\ (pc = "hashable_ref" /\ UnhashableTuple(object)) => aux.st = "err"
    /\ (pc = "key_loaded" /\ UnhashableTuple(object)) => dumped.st = "err"


(***************************************************************************)
(* Malformed graphs and store re-entry in the resolver.                    *)
(***************************************************************************)
\* C28: on a graph in which a StoreRef(i) is met while slot i is being
\* expanded, or in which a LoadRef(i) or StoreRef(i) has i at or above the
\* table length, get_recursive_refs and resolve_all_refs return the invalid
\* store reference or invalid reference error; they neither abort nor
\* produce a result.
C28_GraphErrorsReturned ==
    /\ (pc = "checked" /\ <<object, references>> \in MalformedGraphs) =>
          (aux.st = "err" /\ aux.e \in {"InvalidStoreRef", "InvalidReference"})
    /\ (pc = "resolved" /\ <<object, references>> \in MalformedGraphs) =>
          (result.st = "err" /\ result.e \in {"InvalidStoreRef", "InvalidReference"})

\* C29: on every graph load_bytes returns, cycles through a LoadRef with a
\* further LoadRef into the middle of the cycle included, get_recursive_refs
\* and resolve_all_refs complete without the store re-entry failure.
C29_NoReentryOnLoadedGraphs ==
    /\ (pc = "checked" /\ data # <<>>) =>
          (aux.st = "ok" \/ aux.e # "Recursive reference in StoreRef")
    /\ (pc = "resolved" /\ data # <<>>) =>
          (result.st = "ok" \/ result.e # "Recursive reference in StoreRef")

\* C30: for the graph (root', table') that optimize_references makes of what
\* load_bytes returned, dump_bytes succeeds and load_bytes of the bytes it
\* wrote returns exactly (root', table') again, the slots numbered as before.
C30_OptimizedRoundTrip ==
    pc = "reloaded" =>
        /\ dumped.st = "ok"
        /\ aux.st = "ok"
        /\ aux.obj = result.obj
        /\ aux.refs = result.refs


====
